---------------------------- MODULE Spec2Model ----------------------------
(***************************************************************************)
(* A model of the flint lint engine: the tokenizer of                      *)
(* src/flint/Tokenizer.cpp, the token-stream traversal helpers of          *)
(* src/flint/Checks.cpp and src/cxx/Checks.cpp, and the checks built on    *)
(* them.  Characters are one-element strings; the characters that have no  *)
(* printable form carry their ASCII names.                                 *)
(***************************************************************************)
EXTENDS Integers, Sequences, FiniteSets, TLC

VARIABLES
  input,        \* tokenize: the text handed to tokenize
  mem,          \* tokenize: the bytes pc can read: input, its terminator, then whatever follows it
  pc,           \* tokenize: index into mem of the next character (1-based)
  line,         \* tokenize: current line
  whitespace,   \* tokenize: whitespace and comments collected since the last token
  output,       \* tokenize: tokens produced so far
  structures,   \* tokenize: indices (0-based) of class/struct/union tokens
  tstate,       \* tokenize: "idle", "run", "done" (returned), "throw" (exception), "crash"
  tokens,       \* traversal helpers and checks: the token stream
  impl,         \* which of the two implementations runs: "flint" or "cxx"
  call,         \* traversal helpers: the last call made and what it returned
  pos,          \* checks: loop position in tokens (0-based, as in the code)
  errors,       \* checks: diagnostics emitted so far
  cstate,       \* checks: "idle", "run", "done" (returned), "throw" (exception)
  nestedClasses,\* cxx checkConstructors: stack of class names
  decls,        \* checks: description of the source text the token stream was built from
  openIf,       \* checkIfEndifBalance: the directives open at pos
  errorFile,    \* the ErrorFile in use: its three counts and its diagnostics
  errorReport,  \* main: the ErrorReport: its three counts and its files
  paths,        \* main: the files named on the command line
  entry,        \* main: index into paths of the file in work (0-based)
  allNamespaces,        \* checkUsingNamespaceDirectives: namespace => line, for the visible ones
  nestedNamespaces,     \* checkUsingNamespaceDirectives: stack of the sets of names per scope
  namespaceGroupCounts, \* checkUsingNamespaceDirectives: visible names of the exclusive group
  nestedStatements,     \* checkBreakInSynchronized: stack of StatementBlockInfo
  isException,          \* checkBlacklistedSequences: the local of that name
  Options,              \* the global Options as the checks read it
  previous              \* the diagnostics of each finished call of checkBlacklistedSequences

tokVars == <<input, mem, pc, line, whitespace, output, structures, tstate>>

navVars == <<call>>

chkVars == <<pos, errors, cstate, nestedClasses, decls>>

runVars == <<openIf, errorFile, errorReport, paths, entry>>

vars == <<input, mem, pc, line, whitespace, output, structures, tstate,
          tokens, impl, call, pos, errors, cstate, nestedClasses, decls,
          openIf, errorFile, errorReport, paths, entry,
          allNamespaces, nestedNamespaces, namespaceGroupCounts, nestedStatements,
          isException, Options, previous>>

scopeVars == <<allNamespaces, nestedNamespaces, namespaceGroupCounts, nestedStatements>>

\* neither checkUsingNamespaceDirectives nor checkBreakInSynchronized is running
IdleScopes ==
  /\ allNamespaces = <<>>
  /\ nestedNamespaces = <<>>
  /\ namespaceGroupCounts = <<>>
  /\ nestedStatements = <<>>

blacklistVars == <<isException, Options, previous>>

\* checkBlacklistedSequences is not running and was not called
IdleBlacklist ==
  /\ isException = FALSE
  /\ Options = <<>>
  /\ previous = <<>>

\* neither main nor checkIfEndifBalance is running
IdleRun ==
  /\ openIf = 0
  /\ errorFile = <<>>
  /\ errorReport = <<>>
  /\ paths = <<>>
  /\ entry = 0

---------------------------------------------------------------------------
(* Characters *)

NUL == "NUL"

TAB == "TAB"

LF == "LF"

CR == "CR"

SOH == "SOH"

DEL == "DEL"

SP == " "

BSL == "BSL"

DQ == "DQ"

SQ == "SQ"

BQ == "BQ"

\* what a read outside the mapped bytes yields
SEGV == "SEGV"

LowerCase ==
  {"a","b","c","d","e","f","g","h","i","j","k","l","m",
   "n","o","p","q","r","s","t","u","v","w","x","y","z"}

UpperCase ==
  {"A","B","C","D","E","F","G","H","I","J","K","L","M",
   "N","O","P","Q","R","S","T","U","V","W","X","Y","Z"}

isalpha(c) == c \in LowerCase \cup UpperCase

isdigit(c) == c \in {"0","1","2","3","4","5","6","7","8","9"}

isalnum(c) == isalpha(c) \/ isdigit(c)

iscntrl(c) == c \in {NUL, TAB, LF, CR, SOH, DEL}

---------------------------------------------------------------------------
(* Tokens *)

Token(type, value, ln, ws) ==
  [type_ |-> type, value_ |-> value, precedingWhitespace_ |-> ws, line_ |-> ln]

\* static const string eof("\0"): constructed from a C string, hence empty
eof == <<>>

keywords ==
  (<<"a","u","t","o">> :> "TK_AUTO") @@
  (<<"c","o","n","s","t">> :> "TK_CONST") @@
  (<<"c","o","n","s","t","e","x","p","r">> :> "TK_CONSTEXPR") @@
  (<<"d","o","u","b","l","e">> :> "TK_DOUBLE") @@
  (<<"f","l","o","a","t">> :> "TK_FLOAT") @@
  (<<"i","n","t">> :> "TK_INT") @@
  (<<"s","h","o","r","t">> :> "TK_SHORT") @@
  (<<"s","t","r","u","c","t">> :> "TK_STRUCT") @@
  (<<"u","n","s","i","g","n","e","d">> :> "TK_UNSIGNED") @@
  (<<"b","r","e","a","k">> :> "TK_BREAK") @@
  (<<"c","o","n","t","i","n","u","e">> :> "TK_CONTINUE") @@
  (<<"e","l","s","e">> :> "TK_ELSE") @@
  (<<"f","o","r">> :> "TK_FOR") @@
  (<<"l","o","n","g">> :> "TK_LONG") @@
  (<<"s","i","g","n","e","d">> :> "TK_SIGNED") @@
  (<<"s","w","i","t","c","h">> :> "TK_SWITCH") @@
  (<<"v","o","i","d">> :> "TK_VOID") @@
  (<<"c","a","s","e">> :> "TK_CASE") @@
  (<<"d","e","f","a","u","l","t">> :> "TK_DEFAULT") @@
  (<<"e","n","u","m">> :> "TK_ENUM") @@
  (<<"g","o","t","o">> :> "TK_GOTO") @@
  (<<"r","e","g","i","s","t","e","r">> :> "TK_REGISTER") @@
  (<<"s","i","z","e","o","f">> :> "TK_SIZEOF") @@
  (<<"t","y","p","e","d","e","f">> :> "TK_TYPEDEF") @@
  (<<"v","o","l","a","t","i","l","e">> :> "TK_VOLATILE") @@
  (<<"c","h","a","r">> :> "TK_CHAR") @@
  (<<"d","o">> :> "TK_DO") @@
  (<<"e","x","t","e","r","n">> :> "TK_EXTERN") @@
  (<<"i","f">> :> "TK_IF") @@
  (<<"r","e","t","u","r","n">> :> "TK_RETURN") @@
  (<<"s","t","a","t","i","c">> :> "TK_STATIC") @@
  (<<"u","n","i","o","n">> :> "TK_UNION") @@
  (<<"w","h","i","l","e">> :> "TK_WHILE") @@
  (<<"a","s","m">> :> "TK_ASM") @@
  (<<"d","y","n","a","m","i","c","_","c","a","s","t">> :> "TK_DYNAMIC_CAST") @@
  (<<"n","a","m","e","s","p","a","c","e">> :> "TK_NAMESPACE") @@
  (<<"r","e","i","n","t","e","r","p","r","e","t","_","c","a","s","t">> :> "TK_REINTERPRET_CAST") @@
  (<<"t","r","y">> :> "TK_TRY") @@
  (<<"b","o","o","l">> :> "TK_BOOL") @@
  (<<"e","x","p","l","i","c","i","t">> :> "TK_EXPLICIT") @@
  (<<"n","e","w">> :> "TK_NEW") @@
  (<<"s","t","a","t","i","c","_","c","a","s","t">> :> "TK_STATIC_CAST") @@
  (<<"t","y","p","e","i","d">> :> "TK_TYPEID") @@
  (<<"c","a","t","c","h">> :> "TK_CATCH") @@
  (<<"f","a","l","s","e">> :> "TK_FALSE") @@
  (<<"o","p","e","r","a","t","o","r">> :> "TK_OPERATOR") @@
  (<<"t","e","m","p","l","a","t","e">> :> "TK_TEMPLATE") @@
  (<<"t","y","p","e","n","a","m","e">> :> "TK_TYPENAME") @@
  (<<"c","l","a","s","s">> :> "TK_CLASS") @@
  (<<"f","r","i","e","n","d">> :> "TK_FRIEND") @@
  (<<"p","r","i","v","a","t","e">> :> "TK_PRIVATE") @@
  (<<"t","h","i","s">> :> "TK_THIS") @@
  (<<"u","s","i","n","g">> :> "TK_USING") @@
  (<<"c","o","n","s","t","_","c","a","s","t">> :> "TK_CONST_CAST") @@
  (<<"i","n","l","i","n","e">> :> "TK_INLINE") @@
  (<<"p","u","b","l","i","c">> :> "TK_PUBLIC") @@
  (<<"t","h","r","o","w">> :> "TK_THROW") @@
  (<<"v","i","r","t","u","a","l">> :> "TK_VIRTUAL") @@
  (<<"d","e","l","e","t","e">> :> "TK_DELETE") @@
  (<<"m","u","t","a","b","l","e">> :> "TK_MUTABLE") @@
  (<<"p","r","o","t","e","c","t","e","d">> :> "TK_PROTECTED") @@
  (<<"t","r","u","e">> :> "TK_TRUE") @@
  (<<"w","c","h","a","r","_","t">> :> "TK_WCHAR_T") @@
  (<<"a","n","d">> :> "TK_AND") @@
  (<<"b","i","t","a","n","d">> :> "TK_BITAND") @@
  (<<"c","o","m","p","l">> :> "TK_COMPL") @@
  (<<"n","o","t","_","e","q">> :> "TK_NOT_EQ_CLEARTEXT") @@
  (<<"o","r","_","e","q">> :> "TK_OR_EQ") @@
  (<<"x","o","r","_","e","q">> :> "TK_XOR_ASSIGN_CLEARTEXT") @@
  (<<"a","n","d","_","e","q">> :> "TK_AND_EQ") @@
  (<<"b","i","t","o","r">> :> "TK_BITOR") @@
  (<<"n","o","t">> :> "TK_NOT_CLEARTEXT") @@
  (<<"o","r">> :> "TK_OR") @@
  (<<"x","o","r">> :> "TK_XOR_CLEARTEXT")

---------------------------------------------------------------------------
(* Tokenizer (src/flint/Tokenizer.cpp) *)

\* pc[i]: the byte at index i of the memory m
R(m, i) == IF i >= 1 /\ i <= Len(m) THEN m[i] ELSE SEGV

Munched(n, nl) == [st |-> "ok", n |-> n, nl |-> nl]

Thrown == [st |-> "throw", n |-> 0, nl |-> 0]

Crashed == [st |-> "crash", n |-> 0, nl |-> 0]

\* distance(pc, inputEnd) as a size_t: a pc beyond inputEnd wraps to a huge value
distance(p, E, m) == IF p <= E THEN E - p ELSE Len(m) + 2

RECURSIVE munchIdentifierFrom(_, _, _, _)
munchIdentifierFrom(m, p, size, i) ==
  IF i >= size THEN Munched(size, 0)
  ELSE LET c == R(m, p + i) IN
       IF c = SEGV THEN Crashed
       ELSE IF ~isalnum(c) /\ c # "_" /\ c # "$" /\ c # "@"
            THEN (IF i > 0 THEN Munched(i, 0) ELSE Thrown)
            ELSE munchIdentifierFrom(m, p, size, i + 1)

munchIdentifier(m, p, E) == munchIdentifierFrom(m, p, distance(p, E, m), 0)

RECURSIVE munchCommentFrom(_, _, _, _)
munchCommentFrom(m, p, i, nl) ==
  LET c == R(m, p + i) IN
  IF c = SEGV THEN Crashed
  ELSE IF c = LF THEN munchCommentFrom(m, p, i + 1, nl + 1)
  ELSE IF c = "*"
       THEN (IF R(m, p + i + 1) = "/" THEN Munched(i + 2, nl)
             ELSE munchCommentFrom(m, p, i + 1, nl))
  ELSE IF c = NUL THEN Thrown
  ELSE munchCommentFrom(m, p, i + 1, nl)

munchComment(m, p) == munchCommentFrom(m, p, 2, 0)

RECURSIVE munchSingleLineCommentFrom(_, _, _, _, _)
munchSingleLineCommentFrom(m, p, size, i, nl) ==
  IF i >= size THEN Munched(size, nl)
  ELSE LET c == R(m, p + i) IN
       IF c = SEGV THEN Crashed
       ELSE IF c = LF
            THEN (IF R(m, p + i - 1) = BSL
                  THEN munchSingleLineCommentFrom(m, p, size, i + 1, nl + 1)
                  ELSE Munched(i + 1, nl + 1))
            ELSE munchSingleLineCommentFrom(m, p, size, i + 1, nl)

munchSingleLineComment(m, p, E) ==
  munchSingleLineCommentFrom(m, p, distance(p, E, m), 2, 0)

RECURSIVE munchNumberFrom(_, _, _, _, _, _, _)
munchNumberFrom(m, p, i, sawDot, sawExp, sawX, sawSuffix) ==
  LET c == R(m, p + i) IN
  IF c = SEGV THEN Crashed
  ELSE IF c = "." /\ ~sawDot /\ ~sawExp /\ ~sawSuffix
       THEN munchNumberFrom(m, p, i + 1, TRUE, sawExp, sawX, sawSuffix)
  ELSE IF isdigit(c)
       THEN munchNumberFrom(m, p, i + 1, sawDot, sawExp, sawX, sawSuffix)
  ELSE IF sawX /\ ~sawExp /\ c \in {"A","a","B","b","C","c","D","d","E","e","F","f"}
       THEN munchNumberFrom(m, p, i + 1, sawDot, sawExp, sawX, sawSuffix)
  ELSE IF c = "+" \/ c = "-"
       THEN (IF i > 0 /\ R(m, p + i - 1) \notin {"E","e","P","p"}
             THEN Munched(i, 0)
             ELSE munchNumberFrom(m, p, i + 1, sawDot, sawExp, sawX, sawSuffix))
  ELSE IF ~sawExp /\ ~sawSuffix /\ ~sawX /\ (c = "e" \/ c = "E")
       THEN munchNumberFrom(m, p, i + 1, sawDot, TRUE, sawX, sawSuffix)
  ELSE IF sawX /\ ~sawExp /\ ~sawSuffix /\ (c = "p" \/ c = "P")
       THEN munchNumberFrom(m, p, i + 1, sawDot, TRUE, sawX, sawSuffix)
  ELSE IF (c = "x" \/ c = "X") /\ i = 1 /\ R(m, p) = "0"
       THEN munchNumberFrom(m, p, i + 1, sawDot, sawExp, TRUE, sawSuffix)
  ELSE IF c \in {"F","f","L","l","U","u"}
       THEN munchNumberFrom(m, p, i + 1, sawDot, sawExp, sawX, TRUE)
  ELSE IF i > 0 THEN Munched(i, 0) ELSE Thrown

munchNumber(m, p) == munchNumberFrom(m, p, 0, FALSE, FALSE, FALSE, FALSE)

RECURSIVE munchCharLiteralFrom(_, _, _, _)
munchCharLiteralFrom(m, p, i, nl) ==
  LET c == R(m, p + i) IN
  IF c = SEGV THEN Crashed
  ELSE IF c = SQ THEN Munched(i + 1, nl)
  ELSE IF c = BSL
       THEN (IF R(m, p + i + 1) = SEGV THEN Crashed
             ELSE munchCharLiteralFrom(m, p, i + 2,
                                       IF R(m, p + i + 1) = LF THEN nl + 1 ELSE nl))
  ELSE IF c = NUL THEN Thrown
  ELSE munchCharLiteralFrom(m, p, i + 1, nl)

munchCharLiteral(m, p) == munchCharLiteralFrom(m, p, 1, 0)

RECURSIVE munchStringFrom(_, _, _, _, _)
munchStringFrom(m, p, stringEnd, i, nl) ==
  LET c == R(m, p + i) IN
  IF c = SEGV THEN Crashed
  ELSE IF c = stringEnd THEN Munched(i + 1, nl)
  ELSE IF c = BSL
       THEN (IF R(m, p + i + 1) = SEGV THEN Crashed
             ELSE munchStringFrom(m, p, stringEnd, i + 2,
                                  IF R(m, p + i + 1) = LF THEN nl + 1 ELSE nl))
  ELSE IF c = NUL THEN Thrown
  ELSE munchStringFrom(m, p, stringEnd, i + 1, nl)

munchString(m, p, isIncludeLiteral) ==
  munchStringFrom(m, p, IF isIncludeLiteral THEN ">" ELSE DQ, 1, 0)

RECURSIVE munchSpaces(_, _)
munchSpaces(m, p) ==
  IF R(m, p) = SP \/ R(m, p) = TAB THEN 1 + munchSpaces(m, p + 1) ELSE 0

\* startsWith(str_iter, prefix), src/flint/Polyfill.cpp
startsWith(m, p, prefix) ==
  \A k \in 1..Len(prefix) : R(m, p + k - 1) = prefix[k]

\* find(pc1, input.end(), '\n'); 0 stands for a search that left the mapped bytes
RECURSIVE findNewline(_, _, _)
findNewline(m, from, E) ==
  IF from = E THEN E
  ELSE IF R(m, from) = SEGV THEN 0
  ELSE IF R(m, from) = LF THEN from
  ELSE findNewline(m, from + 1, E)

CPPLINT_FORALL_ONE_CHAR_TOKENS ==
  ("~" :> "TK_TILDE") @@ ("(" :> "TK_LPAREN") @@ (")" :> "TK_RPAREN") @@
  ("[" :> "TK_LSQUARE") @@ ("]" :> "TK_RSQUARE") @@ ("{" :> "TK_LCURL") @@
  ("}" :> "TK_RCURL") @@ (";" :> "TK_SEMICOLON") @@ ("," :> "TK_COMMA") @@
  ("?" :> "TK_QUESTION")

CPPLINT_FORALL_ONE_OR_TWO_CHAR_TOKENS ==
  (":" :> <<"TK_COLON", ":", "TK_DOUBLE_COLON">>) @@
  ("%" :> <<"TK_REMAINDER", "=", "TK_REMAINDER_ASSIGN">>) @@
  ("=" :> <<"TK_ASSIGN", "=", "TK_EQUAL_TO">>) @@
  ("!" :> <<"TK_NOT", "=", "TK_NOT_ASSIGN">>) @@
  ("^" :> <<"TK_XOR", "=", "TK_XOR_ASSIGN">>) @@
  ("*" :> <<"TK_STAR", "=", "TK_STAR_ASSIGN">>)

CPPLINT_FORALL_ONE_OR_TWO_CHAR_TOKENS2 ==
  ("+" :> <<"TK_PLUS", "+", "TK_INCREMENT", "=", "TK_PLUS_ASSIGN">>) @@
  ("&" :> <<"TK_AMPERSAND", "&", "TK_LOGICAL_AND", "=", "TK_AND_ASSIGN">>) @@
  ("|" :> <<"TK_BINARY_OR", "|", "TK_LOGICAL_OR", "=", "TK_OR_ASSIGN">>)

CPPLINT_FORALL_ONE_TO_THREE_CHAR_TOKENS ==
  ("<" :> <<"TK_LESS", "=", "TK_LESS_EQUAL", "<", "TK_LSHIFT", "=", "TK_LSHIFT_ASSIGN">>) @@
  (">" :> <<"TK_GREATER", "=", "TK_GREATER_EQUAL", ">", "TK_RSHIFT", "=", "TK_RSHIFT_ASSIGN">>)

Lexeme(kind, type, r) == [st |-> r.st, k |-> kind, t |-> type, n |-> r.n, nl |-> r.nl]

\* the '#' case of the switch: the length added to tokenLen depends on the directive
poundToken(m, p, E) ==
  LET sp   == munchSpaces(m, p + 1)
      pc1  == p + 1 + sp
      base == 1 + sp
      nlAt == findNewline(m, pc1, E)
      rest == IF nlAt = 0 THEN Crashed ELSE Munched(base + (nlAt - p), 0)
  IN  IF startsWith(m, pc1, <<"l","i","n","e">>) THEN Lexeme("tok", "TK_HASHLINE", rest)
      ELSE IF startsWith(m, pc1, <<"e","r","r","o","r">>) THEN Lexeme("tok", "TK_ERROR", rest)
      ELSE IF startsWith(m, pc1, <<"i","n","c","l","u","d","e">>)
           THEN Lexeme("tok", "TK_INCLUDE", Munched(base + 7, 0))
      ELSE IF startsWith(m, pc1, <<"i","f","d","e","f">>)
           THEN Lexeme("tok", "TK_IFDEF", Munched(base + 5, 0))
      ELSE IF startsWith(m, pc1, <<"i","f","n","d","e","f">>)
           THEN Lexeme("tok", "TK_IFNDEF", Munched(base + 6, 0))
      ELSE IF startsWith(m, pc1, <<"i","f">>)
           THEN Lexeme("tok", "TK_POUNDIF", Munched(base + 2, 0))
      ELSE IF startsWith(m, pc1, <<"u","n","d","e","f">>)
           THEN Lexeme("tok", "TK_UNDEF", Munched(base + 5, 0))
      ELSE IF startsWith(m, pc1, <<"e","l","s","e">>)
           THEN Lexeme("tok", "TK_POUNDELSE", Munched(base + 4, 0))
      ELSE IF startsWith(m, pc1, <<"e","n","d","i","f">>)
           THEN Lexeme("tok", "TK_ENDIF", Munched(base + 5, 0))
      ELSE IF startsWith(m, pc1, <<"d","e","f","i","n","e">>)
           THEN Lexeme("tok", "TK_DEFINE", Munched(base + 6, 0))
      ELSE IF startsWith(m, pc1, <<"p","r","a","g","m","a">>)
           THEN Lexeme("tok", "TK_PRAGMA", Munched(base + 6, 0))
      ELSE IF startsWith(m, pc1, <<"#">>)
           THEN Lexeme("tok", "TK_DOUBLEPOUND", Munched(base + 2, 0))
      ELSE Lexeme("tok", "TK_POUND", Munched(base + 1, 0))

\* the default case with control characters rejected instead of skipped
defaultCase_rejectControl(m, p, E) ==
  LET c == R(m, p) IN
  IF iscntrl(c) THEN Lexeme("ws", "", Thrown)
  ELSE IF isalpha(c) \/ c = "_" \/ c = "$" \/ c = "@"
       THEN LET r   == munchIdentifier(m, p, E)
                sym == SubSeq(m, p, p + r.n - 1)
            IN  IF r.st = "ok" /\ sym \in DOMAIN keywords
                THEN Lexeme("tok", keywords[sym], r)
                ELSE Lexeme("tok", "TK_IDENTIFIER", r)
       ELSE Lexeme("tok", "", Thrown)

\* the default case of the switch
defaultCase(m, p, E) ==
  LET c == R(m, p) IN
  IF iscntrl(c) THEN Lexeme("ws", "", Munched(1, 0))
  ELSE IF isalpha(c) \/ c = "_" \/ c = "$" \/ c = "@"
       THEN LET r   == munchIdentifier(m, p, E)
                sym == SubSeq(m, p, p + r.n - 1)
            IN  IF r.st = "ok" /\ sym \in DOMAIN keywords
                THEN Lexeme("tok", keywords[sym], r)
                ELSE Lexeme("tok", "TK_IDENTIFIER", r)
       ELSE Lexeme("tok", "", Thrown)

\* one pass through the switch of tokenize, the byte at pc being c
switchOn(m, p, E) ==
  LET c  == R(m, p)
      c1 == R(m, p + 1)
      c2 == R(m, p + 2)
  IN
  IF c \in DOMAIN CPPLINT_FORALL_ONE_CHAR_TOKENS
    THEN Lexeme("tok", CPPLINT_FORALL_ONE_CHAR_TOKENS[c], Munched(1, 0))
  ELSE IF c \in DOMAIN CPPLINT_FORALL_ONE_OR_TWO_CHAR_TOKENS
    THEN LET e == CPPLINT_FORALL_ONE_OR_TWO_CHAR_TOKENS[c] IN
         IF c1 = e[2] THEN Lexeme("tok", e[3], Munched(2, 0))
         ELSE Lexeme("tok", e[1], Munched(1, 0))
  ELSE IF c \in DOMAIN CPPLINT_FORALL_ONE_OR_TWO_CHAR_TOKENS2
    THEN LET e == CPPLINT_FORALL_ONE_OR_TWO_CHAR_TOKENS2[c] IN
         IF c1 = e[2] THEN Lexeme("tok", e[3], Munched(2, 0))
         ELSE IF c1 = e[4] THEN Lexeme("tok", e[5], Munched(2, 0))
         ELSE Lexeme("tok", e[1], Munched(1, 0))
  ELSE IF c \in DOMAIN CPPLINT_FORALL_ONE_TO_THREE_CHAR_TOKENS
    THEN LET e == CPPLINT_FORALL_ONE_TO_THREE_CHAR_TOKENS[c] IN
         IF c1 = e[2] THEN Lexeme("tok", e[3], Munched(2, 0))
         ELSE IF c1 = e[4]
              THEN (IF c2 = e[6] THEN Lexeme("tok", e[7], Munched(3, 0))
                    ELSE Lexeme("tok", e[5], Munched(2, 0)))
         ELSE Lexeme("tok", e[1], Munched(1, 0))
  ELSE IF c = "/"
    THEN IF c1 = "*" THEN Lexeme("ws", "", munchComment(m, p))
         ELSE IF c1 = "/" THEN Lexeme("ws", "", munchSingleLineComment(m, p, E))
         ELSE IF c1 = "=" THEN Lexeme("tok", "TK_DIVIDE_ASSIGN", Munched(2, 0))
         ELSE Lexeme("tok", "TK_DIVIDE", Munched(1, 0))
  ELSE IF c = BSL
    THEN IF c1 = LF \/ c1 = CR THEN Lexeme("ws", "", Munched(2, 1))
         ELSE Lexeme("ws", "", Thrown)
  ELSE IF c = LF THEN Lexeme("ws", "", Munched(1, 1))
  ELSE IF c = CR THEN Lexeme("ws", "", Munched(1, 0))
  ELSE IF c = "-"
    THEN IF c1 = "-" THEN Lexeme("tok", "TK_DECREMENT", Munched(2, 0))
         ELSE IF c1 = "=" THEN Lexeme("tok", "TK_MINUS_ASSIGN", Munched(2, 0))
         ELSE IF c1 = ">"
              THEN (IF c2 = "*" THEN Lexeme("tok", "TK_ARROW_STAR", Munched(3, 0))
                    ELSE Lexeme("tok", "TK_ARROW", Munched(2, 0)))
         ELSE Lexeme("tok", "TK_MINUS", Munched(1, 0))
  ELSE IF c = SP \/ c = TAB THEN Lexeme("ws", "", Munched(munchSpaces(m, p), 0))
  ELSE IF c = NUL THEN Lexeme("eof", "TK_EOF", Munched(0, 0))
  ELSE IF c = BQ THEN Lexeme("tok", "", Thrown)
  ELSE IF isdigit(c) THEN Lexeme("tok", "TK_NUMBER", munchNumber(m, p))
  ELSE IF c = "."
    THEN IF isdigit(c1) THEN Lexeme("tok", "TK_NUMBER", munchNumber(m, p))
         ELSE IF c1 = "*" THEN Lexeme("tok", "TK_DOT_STAR", Munched(2, 0))
         ELSE IF c1 = "." /\ c2 = "." THEN Lexeme("tok", "TK_ELLIPSIS", Munched(3, 0))
         ELSE Lexeme("tok", "TK_DOT", Munched(1, 0))
  ELSE IF c = SQ THEN Lexeme("tok", "TK_CHAR_LITERAL", munchCharLiteral(m, p))
  ELSE IF c = DQ THEN Lexeme("tok", "TK_STRING_LITERAL", munchString(m, p, FALSE))
  ELSE IF c = "#" THEN poundToken(m, p, E)
  ELSE defaultCase(m, p, E)

\* one iteration of the while loop of tokenize: the #include <...> special
\* case, then the switch; a token whose bytes are not all mapped is a crash
scan(m, p, E, out) ==
  LET c == R(m, p)
      r == IF c = SEGV THEN Lexeme("tok", "", Crashed)
           ELSE IF Len(out) > 0 /\ out[Len(out)].type_ \notin {"TK_CLASS", "TK_STRUCT", "TK_UNION"}
                   /\ c = "<" /\ out[Len(out)].type_ = "TK_INCLUDE"
                THEN Lexeme("tok", "TK_STRING_LITERAL", munchString(m, p, TRUE))
                ELSE switchOn(m, p, E)
  IN  IF r.st = "ok" /\ p + r.n - 1 > Len(m) THEN Lexeme(r.k, r.t, Crashed) ELSE r

\* structures.push_back(output.size() - 1) at the top of the loop body
pushStructure(st, out) ==
  IF Len(out) > 0 /\ out[Len(out)].type_ \in {"TK_CLASS", "TK_STRUCT", "TK_UNION"}
  THEN Append(st, Len(out) - 1) ELSE st

\* the token pushed when the loop meets a NUL inside the input
pushEofAtNul(out, ln, ws) == Append(out, Token("TK_EOF", eof, ln, ws))

\* the push after the loop forgotten
pushEofAtEnd_forgotten(out, ln, ws) == out

\* the token pushed after the loop: its whitespace is the empty string
pushEofAtEnd(out, ln, ws) == Append(out, Token("TK_EOF", eof, ln, <<>>))

---------------------------------------------------------------------------
(* tokenize as a state machine: one action per iteration of its loop *)

\* longest input text of the exhaustive part of the input set
MaxInputLen == 4

\* most bytes modelled behind the terminator of the input
MaxGarbage == 2

SeqsUpTo(S, n) == UNION {[1..k -> S] : k \in 0..n}

TokAlphabet == {"a", SP, LF, BSL, DQ, SQ, "/", "*", NUL, SOH}

TokSamples ==
  { <<"#", "i", "n", "c", "l", "u", "d", "e", " ", "<", "a", ".", "h", ">", LF,
      "#", "d", "e", "f", "i", "n", "e", " ", "A", " ", "1", LF>>,
    <<"#", " ", "l", "i", "n", "e", " ", "7", LF, "x">>,
    <<"#", "e", "r", "r", "o", "r", " ", "n", "o", LF>>,
    <<"#", "i", "f", "d", "e", "f", " ", "A", LF, "#", "i", "f", "n", "d", "e", "f", " ", "B", LF,
      "#", "i", "f", " ", "C", LF, "#", "e", "l", "s", "e", LF, "#", "e", "n", "d", "i", "f", LF,
      "#", "u", "n", "d", "e", "f", " ", "D", LF, "#", "p", "r", "a", "g", "m", "a", " ", "E", LF>>,
    <<"a", "#", "#", "b", " ", "#", "c", " ">>,
    <<"c", "l", "a", "s", "s", " ", "A", "{", "}", ";", "s", "t", "r", "u", "c", "t", " ", "B", ";",
      "u", "n", "i", "o", "n", " ", "U">>,
    <<"0", "x", "1", "F", "p", "-", "3", "+", "2", "-", ".", "5", "e", "+", "1", "f">>,
    <<"a", "-", ">", "*", "b", "-", ">", "c", "-", "-", "d", "-", "=", "e", "-", "f">>,
    <<".", ".", ".", "x", ".", "*", "y", ".", "z">>,
    <<"a", "<", "<", "=", "b", ">", ">", "=", "c", "<", "=", "d", ">", "=", "e", "<", "<", "f",
      ">", ">", "g", "<", "h", ">", "i">>,
    <<"a", ":", ":", "b", ":", "c", "%", "=", "d", "=", "=", "e", "!", "=", "f", "^", "=", "g",
      "*", "=", "h", "+", "+", "i", "+", "=", "j", "&", "&", "k", "&", "=", "l", "|", "|", "m",
      "|", "=", "n", "~", "?", "[", "]", "(", ")", ",", ";">>,
    <<"/", "=", "a", "/", "b", "/", "/", "c", BSL, LF, "d", LF, "e", BQ>>,
    <<BSL, CR, LF, TAB, "$", "x", "@", "_", "1", CR, LF>> }

\* the program of testTokenizer: #include <stdio.h>, int main() {, a call of
\* printf with one string literal, and } (without the padding of the test text)
HelloProgram ==
  <<"#", "i", "n", "c", "l", "u", "d", "e", SP, "<", "s", "t", "d", "i", "o", ".", "h", ">",
    LF, "i", "n", "t", SP, "m", "a", "i", "n", "(", ")", SP, "{", LF, SP, SP, "p", "r", "i",
    "n", "t", "f", "(", DQ, "h", "e", "l", "l", "o", ",", SP, "w", "o", "r", "l", "d", DQ, ")",
    ";", LF, "}">>

TokInputs == SeqsUpTo(TokAlphabet, MaxInputLen) \cup TokSamples \cup {HelloProgram}

\* the bytes that may lie behind the terminator of the input
GarbageBytes == {NUL, DQ, SQ, "a"}

Garbage == SeqsUpTo(GarbageBytes, MaxGarbage) \ {<<>>}

\* input.end(): the index of the terminator of the input
inputEnd == Len(input) + 1

\* The bytes behind the terminator are not determined by the program: they
\* are chosen the first time an iteration reads or consumes one of them.
MemChoices ==
  IF scan(mem, pc, inputEnd, output).st = "crash" /\ Len(mem) = inputEnd
  THEN {mem \o g : g \in Garbage}
  ELSE {mem}

NoNav == [op |-> "none"]

IdleChecks ==
  /\ tokens = <<>>
  /\ impl = "flint"
  /\ call = NoNav
  /\ pos = 0
  /\ errors = <<>>
  /\ cstate = "idle"
  /\ nestedClasses = <<>>
  /\ IdleScopes
  /\ IdleBlacklist
  /\ decls = <<>>

InitTokenize ==
  /\ input \in TokInputs
  /\ mem = input \o <<NUL>>
  /\ pc = 1
  /\ line = 1
  /\ whitespace = <<>>
  /\ output = <<>>
  /\ structures = <<>>
  /\ tstate = "run"
  /\ IdleChecks
  /\ IdleRun

UnchangedChecks ==
  UNCHANGED <<tokens, impl, call, pos, errors, cstate, nestedClasses, decls, scopeVars, blacklistVars, runVars>>

\* an iteration that pushes a token
TokenizeToken ==
  /\ tstate = "run" /\ pc # inputEnd
  /\ \E m \in MemChoices :
       LET r == scan(m, pc, inputEnd, output) IN
       /\ r.st = "ok" /\ r.k = "tok"
       /\ mem' = m
       /\ output' = Append(output, Token(r.t, SubSeq(m, pc, pc + r.n - 1), line + r.nl, whitespace))
       /\ whitespace' = <<>>
       /\ pc' = pc + r.n
       /\ line' = line + r.nl
  /\ structures' = pushStructure(structures, output)
  /\ UNCHANGED <<input, tstate>>
  /\ UnchangedChecks

\* an iteration that adds whitespace or a comment to the pending whitespace
TokenizeWhitespace ==
  /\ tstate = "run" /\ pc # inputEnd
  /\ \E m \in MemChoices :
       LET r == scan(m, pc, inputEnd, output) IN
       /\ r.st = "ok" /\ r.k = "ws"
       /\ mem' = m
       /\ whitespace' = whitespace \o SubSeq(m, pc, pc + r.n - 1)
       /\ pc' = pc + r.n
       /\ line' = line + r.nl
  /\ structures' = pushStructure(structures, output)
  /\ UNCHANGED <<input, output, tstate>>
  /\ UnchangedChecks

\* case 0 of the switch: push the EOF token and return
TokenizeNul ==
  /\ tstate = "run" /\ pc # inputEnd
  /\ scan(mem, pc, inputEnd, output).st = "ok"
  /\ scan(mem, pc, inputEnd, output).k = "eof"
  /\ output' = pushEofAtNul(output, line, whitespace)
  /\ structures' = pushStructure(structures, output)
  /\ tstate' = "done"
  /\ UNCHANGED <<input, mem, pc, line, whitespace>>
  /\ UnchangedChecks

\* the loop ends at input.end(): push the EOF token and return
TokenizeEnd ==
  /\ tstate = "run" /\ pc = inputEnd
  /\ output' = pushEofAtEnd(output, line, whitespace)
  /\ tstate' = "done"
  /\ UNCHANGED <<input, mem, pc, line, whitespace, structures>>
  /\ UnchangedChecks

\* FBEXCEPTION / ENFORCE: tokenize leaves by an exception
TokenizeThrow ==
  /\ tstate = "run" /\ pc # inputEnd
  /\ \E m \in MemChoices :
       /\ scan(m, pc, inputEnd, output).st = "throw"
       /\ mem' = m
  /\ structures' = pushStructure(structures, output)
  /\ tstate' = "throw"
  /\ UNCHANGED <<input, pc, line, whitespace, output>>
  /\ UnchangedChecks

\* a read outside the mapped bytes
TokenizeCrash ==
  /\ tstate = "run" /\ pc # inputEnd
  /\ \E m \in MemChoices :
       /\ scan(m, pc, inputEnd, output).st = "crash"
       /\ mem' = m
  /\ tstate' = "crash"
  /\ UNCHANGED <<input, pc, line, whitespace, output, structures>>
  /\ UnchangedChecks

NextTokenize ==
  \/ TokenizeToken
  \/ TokenizeWhitespace
  \/ TokenizeNul
  \/ TokenizeEnd
  \/ TokenizeThrow
  \/ TokenizeCrash

SpecTokenize == InitTokenize /\ [][NextTokenize]_vars

---------------------------------------------------------------------------
(* Properties of tokenize *)

\* C1: when tokenize returns, the token sequence is non-empty, its last
\* element is its only EOF token, and the lines of the tokens never decrease.
C1_TokenSequenceShape ==
  tstate = "done" =>
    /\ Len(output) > 0
    /\ output[Len(output)].type_ = "TK_EOF"
    /\ \A i \in 1..(Len(output) - 1) :
         /\ output[i].type_ # "TK_EOF"
         /\ output[i].line_ <= output[i + 1].line_

C1_Witness ==
  /\ tstate = "done"
  /\ Len(output) >= 3
  /\ output[1].line_ < output[Len(output)].line_

RECURSIVE Concat(_)
Concat(seqs) == IF seqs = <<>> THEN <<>> ELSE Head(seqs) \o Concat(Tail(seqs))

\* the text written back from a token sequence: whitespace then value, token by token
Rendered(toks) == Concat([i \in 1..Len(toks) |-> toks[i].precedingWhitespace_ \o toks[i].value_])

\* C2: when tokenize returns, the preceding whitespace and value of the
\* tokens, concatenated in order, are the input text.
C2_RoundTrip == tstate = "done" => Rendered(output) = input

\* characters that open no literal and no comment
PlainChars == {"a", SP, LF}

\* the reading of a literal body by the language: a backslash escapes the
\* character after it, the first delimiter q that is not escaped closes it
RECURSIVE Closes(_, _)
Closes(body, q) ==
  IF body = <<>> THEN FALSE
  ELSE IF Head(body) = q THEN TRUE
  ELSE IF Head(body) = BSL
       THEN (IF Len(body) >= 2 THEN Closes(Tail(Tail(body)), q) ELSE FALSE)
       ELSE Closes(Tail(body), q)

CommentCloses(body) == \E i \in 1..(Len(body) - 1) : body[i] = "*" /\ body[i + 1] = "/"

\* after plain text, a string literal, character literal or block comment is
\* opened and the rest of the text does not close it
OpenLiteral(text) ==
  \E k \in 1..Len(text) :
    /\ \A i \in 1..(k - 1) : text[i] \in PlainChars
    /\ \/ text[k] = DQ /\ ~Closes(SubSeq(text, k + 1, Len(text)), DQ)
       \/ text[k] = SQ /\ ~Closes(SubSeq(text, k + 1, Len(text)), SQ)
       \/ /\ k < Len(text)
          /\ text[k] = "/" /\ text[k + 1] = "*"
          /\ ~CommentCloses(SubSeq(text, k + 2, Len(text)))

\* C7: tokenize ends by an exception on every input in which a string
\* literal, a character literal or a block comment is left open, also when
\* the input ends right after a backslash inside the literal.
C7_OpenLiteralThrows == (tstate # "run" /\ OpenLiteral(input)) => tstate = "throw"

\* control characters other than NUL, newline, carriage return and tab
OtherControls == {SOH, DEL}

\* plain text with at least one such control character in it
BareControl(text) ==
  /\ \A i \in 1..Len(text) : text[i] \in PlainChars \cup OtherControls
  /\ \E i \in 1..Len(text) : text[i] \in OtherControls

---------------------------------------------------------------------------
(* Token-stream traversal helpers (src/flint/Checks.cpp, src/cxx/Checks.cpp). *)
(* Positions are 0-based as in the code; tokens[pos] is toks[pos + 1].        *)

\* A uint is kept as the integer congruent to it modulo 2^32 that is nearest to
\* zero, so 0 - 1 (UINT_MAX in the code) is kept as -1; streams are far shorter
\* than 2^31 tokens, so ++ and -- are + 1 and - 1 on it.
\* uint x > 0
UIntPositive(x) == x # 0

\* tokens[pos].type_
TypeAt(toks, p) == toks[p + 1].type_

\* isTok(tokens[pos], TK_EOF) behind the bound test pos < tokens.size()
AtEnd(toks, p) == ~(p < Len(toks)) \/ TypeAt(toks, p) = "TK_EOF"

\* flint atSequence: the bound test, then find_if over the list
atSequence(toks, p, list) ==
  IF (p + Len(list) + 1) >= Len(toks) THEN FALSE
  ELSE \A i \in 1..Len(list) : TypeAt(toks, p + i - 1) = list[i]

\* cxx atSequence: no bound test; "outside" stands for a read behind the vector
RECURSIVE cxx_atSequenceFrom(_, _, _, _)
cxx_atSequenceFrom(toks, p, list, i) ==
  IF i > Len(list) THEN "true"
  ELSE IF ~(p + i - 1 < Len(toks)) THEN "outside"
  ELSE IF list[i] # TypeAt(toks, p + i - 1) THEN "false"
  ELSE cxx_atSequenceFrom(toks, p, list, i + 1)

cxx_atSequence(toks, p, list) == cxx_atSequenceFrom(toks, p, list, 1)

\* the loop of skipTemplateSpec; the result is the position reached and *containsArray
RECURSIVE skipTemplateSpecFrom(_, _, _, _, _)
skipTemplateSpecFrom(toks, p, angleNest, parenNest, containsArray) ==
  IF AtEnd(toks, p) THEN [pos |-> p, containsArray |-> containsArray]
  ELSE LET tok == TypeAt(toks, p) IN
       IF tok = "TK_LPAREN"
         THEN skipTemplateSpecFrom(toks, p + 1, angleNest, parenNest + 1, containsArray)
       ELSE IF tok = "TK_RPAREN"
         THEN skipTemplateSpecFrom(toks, p + 1, angleNest, parenNest - 1, containsArray)
       ELSE IF UIntPositive(parenNest)
         THEN skipTemplateSpecFrom(toks, p + 1, angleNest, parenNest, containsArray)
       ELSE IF tok = "TK_LSQUARE"
         THEN skipTemplateSpecFrom(toks, p + 1, angleNest, parenNest,
                                   containsArray \/ angleNest = 1)
       ELSE IF tok = "TK_LESS"
         THEN skipTemplateSpecFrom(toks, p + 1, angleNest + 1, parenNest, containsArray)
       ELSE IF tok = "TK_GREATER"
         THEN (IF angleNest - 1 = 0 THEN [pos |-> p, containsArray |-> containsArray]
               ELSE skipTemplateSpecFrom(toks, p + 1, angleNest - 1, parenNest, containsArray))
       ELSE skipTemplateSpecFrom(toks, p + 1, angleNest, parenNest, containsArray)

\* flint skipTemplateSpec: the loop starts on the leading TK_LESS itself
skipTemplateSpec(toks, p) == skipTemplateSpecFrom(toks, p, 1, 0, FALSE)

\* cxx skipTemplateSpec: ++it before the loop
cxx_skipTemplateSpec(toks, p) == skipTemplateSpecFrom(toks, p + 1, 1, 0, FALSE)

RECURSIVE skipBlockFrom(_, _, _)
skipBlockFrom(toks, p, openBraces) ==
  IF AtEnd(toks, p) THEN p
  ELSE IF TypeAt(toks, p) = "TK_LCURL" THEN skipBlockFrom(toks, p + 1, openBraces + 1)
  ELSE IF TypeAt(toks, p) = "TK_RCURL"
       THEN (IF openBraces - 1 = 0 THEN p ELSE skipBlockFrom(toks, p + 1, openBraces - 1))
  ELSE skipBlockFrom(toks, p + 1, openBraces)

\* skipBlock with the step over the leading brace left out
skipBlock_onOpener(toks, p) == skipBlockFrom(toks, p, 1)

\* flint skipBlock: ++pos, then the loop
skipBlock(toks, p) == skipBlockFrom(toks, p + 1, 1)

\* cxx skipBlock: ++it, then the same loop, ended by TK_EOF alone
cxx_skipBlock(toks, p) == skipBlockFrom(toks, p + 1, 1)

\* flint skipFunctionDeclaration: the loop starts on pos itself
RECURSIVE skipFunctionDeclaration(_, _)
skipFunctionDeclaration(toks, p) ==
  IF AtEnd(toks, p) THEN p
  ELSE IF TypeAt(toks, p) = "TK_SEMICOLON" THEN p
  ELSE IF TypeAt(toks, p) = "TK_LCURL" THEN skipBlock(toks, p)
  ELSE skipFunctionDeclaration(toks, p + 1)

RECURSIVE cxx_skipFunctionDeclarationFrom(_, _)
cxx_skipFunctionDeclarationFrom(toks, p) ==
  IF AtEnd(toks, p) THEN p
  ELSE IF TypeAt(toks, p) = "TK_SEMICOLON" THEN p
  ELSE IF TypeAt(toks, p) = "TK_LCURL" THEN cxx_skipBlock(toks, p)
  ELSE cxx_skipFunctionDeclarationFrom(toks, p + 1)

\* cxx skipFunctionDeclaration: ++it, then the loop
cxx_skipFunctionDeclaration(toks, p) == cxx_skipFunctionDeclarationFrom(toks, p + 1)

\* struct Argument: the tokens first .. last - 1
Argument(a, b) == [first |-> a, last |-> b]

\* the loop of flint getRealArguments and what follows it
RECURSIVE getRealArgumentsFrom(_, _, _, _, _)
getRealArgumentsFrom(toks, p, argStart, parenCount, args) ==
  IF AtEnd(toks, p) THEN [ret |-> FALSE, pos |-> p, args |-> args]
  ELSE LET tok == TypeAt(toks, p) IN
       IF tok = "TK_LPAREN"
         THEN getRealArgumentsFrom(toks, p + 1, argStart, parenCount + 1, args)
       ELSE IF tok = "TK_RPAREN"
         THEN (IF parenCount - 1 = 0
               THEN [ret |-> TRUE, pos |-> p,
                     args |-> IF argStart # p THEN Append(args, Argument(argStart, p)) ELSE args]
               ELSE getRealArgumentsFrom(toks, p + 1, argStart, parenCount - 1, args))
       ELSE IF tok = "TK_COMMA"
         THEN (IF parenCount = 1
               THEN getRealArgumentsFrom(toks, p + 1, p + 1, parenCount,
                                         Append(args, Argument(argStart, p)))
               ELSE getRealArgumentsFrom(toks, p + 1, argStart, parenCount, args))
       ELSE getRealArgumentsFrom(toks, p + 1, argStart, parenCount, args)

\* getRealArguments with the first argument begun on the parenthesis itself
getRealArguments_fromParen(toks, p, args) == getRealArgumentsFrom(toks, p + 1, p, 1, args)

\* flint getRealArguments: pos is on the opening parenthesis
getRealArguments(toks, p, args) == getRealArgumentsFrom(toks, p + 1, p + 1, 1, args)

\* the do-while loop of cxx getRealArguments; p is i at the top of the body
RECURSIVE cxx_getRealArgumentsFrom(_, _, _, _, _)
cxx_getRealArgumentsFrom(toks, p, argStart, parenCount, args) ==
  IF TypeAt(toks, p) = "TK_EOF" THEN [ret |-> FALSE, pos |-> p, args |-> args]
  ELSE LET i   == p + 1
           tok == TypeAt(toks, i)
           pc1 == IF tok = "TK_LPAREN" THEN parenCount + 1
                  ELSE IF tok = "TK_RPAREN" THEN parenCount - 1
                  ELSE parenCount
           i1  == IF tok = "TK_LESS" THEN cxx_skipTemplateSpec(toks, i).pos ELSE i
           cut == tok = "TK_COMMA" /\ parenCount = 1
           as1 == IF cut THEN Append(args, Argument(argStart, i)) ELSE args
           st1 == IF cut THEN i + 1 ELSE argStart
       IN  IF pc1 # 0 THEN cxx_getRealArgumentsFrom(toks, i1, st1, pc1, as1)
           ELSE [ret |-> TRUE, pos |-> i1,
                 args |-> IF st1 # i1 THEN Append(as1, Argument(st1, i1)) ELSE as1]

cxx_getRealArguments(toks, p, args) == cxx_getRealArgumentsFrom(toks, p, p + 1, 1, args)

\* flint getFunctionNameAndArguments; func is the span of the name
getFunctionNameAndArguments(toks, p, args) ==
  LET p1 == p + 1 IN
  IF p1 < Len(toks) /\ TypeAt(toks, p1) = "TK_LESS"
  THEN LET p2 == skipTemplateSpec(toks, p1).pos IN
       IF AtEnd(toks, p2)
       THEN [ret |-> FALSE, pos |-> p2, args |-> args]
       ELSE getRealArguments(toks, p2 + 1, args) @@ [func |-> Argument(p, p2 + 1)]
  ELSE getRealArguments(toks, p1, args) @@ [func |-> Argument(p, p1)]

cxx_getFunctionNameAndArguments(toks, p, args) ==
  LET p1 == p + 1 IN
  IF TypeAt(toks, p1) = "TK_LESS"
  THEN LET p2 == cxx_skipTemplateSpec(toks, p1).pos IN
       IF TypeAt(toks, p2) = "TK_EOF"
       THEN [ret |-> FALSE, pos |-> p2, args |-> args]
       ELSE cxx_getRealArguments(toks, p2 + 1, args) @@ [func |-> Argument(p, p2 + 1)]
  ELSE cxx_getRealArguments(toks, p1, args) @@ [func |-> Argument(p, p1)]

---------------------------------------------------------------------------
(* The helpers applied to token streams. Every stream ends with its one       *)
(* TK_EOF token, as the tokenizer leaves it; line_ numbers the tokens.        *)

MaxNavLen == 4

BraceKinds == {"TK_LCURL", "TK_RCURL", "TK_IDENTIFIER"}

AngleKinds == {"TK_LESS", "TK_GREATER", "TK_LPAREN", "TK_RPAREN", "TK_LSQUARE"}

ArgKinds == {"TK_LPAREN", "TK_RPAREN", "TK_COMMA", "TK_IDENTIFIER", "TK_LESS", "TK_GREATER"}

NavSamples ==
  { <<"TK_LPAREN", "TK_IDENTIFIER", "TK_COMMA", "TK_LPAREN", "TK_IDENTIFIER", "TK_COMMA",
      "TK_IDENTIFIER", "TK_RPAREN", "TK_RPAREN">>,
    <<"TK_LPAREN", "TK_COMMA", "TK_LPAREN", "TK_COMMA", "TK_RPAREN", "TK_RPAREN">>,
    <<"TK_LCURL", "TK_LCURL", "TK_RCURL", "TK_IDENTIFIER", "TK_LCURL", "TK_RCURL", "TK_RCURL",
      "TK_RCURL">>,
    <<"TK_LESS", "TK_LESS", "TK_LPAREN", "TK_GREATER", "TK_RPAREN", "TK_GREATER", "TK_LSQUARE",
      "TK_GREATER", "TK_GREATER">>,
    <<"TK_IDENTIFIER", "TK_LPAREN", "TK_IDENTIFIER", "TK_LESS", "TK_IDENTIFIER", "TK_COMMA",
      "TK_IDENTIFIER", "TK_GREATER", "TK_RPAREN">> }

\* the spelling of a token of each kind
ValueOf(kind) ==
  CASE kind = "TK_EOF" -> eof
    [] kind = "TK_IDENTIFIER" -> <<"a">>
    [] kind = "TK_LCURL" -> <<"{">>
    [] kind = "TK_RCURL" -> <<"}">>
    [] kind = "TK_LESS" -> <<"<">>
    [] kind = "TK_GREATER" -> <<">">>
    [] kind = "TK_LPAREN" -> <<"(">>
    [] kind = "TK_RPAREN" -> <<")">>
    [] kind = "TK_COMMA" -> <<",">>
    [] kind = "TK_LSQUARE" -> <<"[">>
    [] kind = "TK_CATCH" -> <<"c", "a", "t", "c", "h">>
    [] kind = "TK_TRY" -> <<"t", "r", "y">>
    [] kind = "TK_CONST" -> <<"c", "o", "n", "s", "t">>
    [] kind = "TK_TYPENAME" -> <<"t", "y", "p", "e", "n", "a", "m", "e">>
    [] kind = "TK_DOUBLE_COLON" -> <<":", ":">>
    [] kind = "TK_ELLIPSIS" -> <<".", ".", ".">>
    [] kind = "TK_AMPERSAND" -> <<"&">>
    [] kind = "TK_LOGICAL_AND" -> <<"&", "&">>
    [] kind = "TK_STAR" -> <<"*">>
    [] kind = "TK_INT" -> <<"i", "n", "t">>
    [] kind = "TK_VOID" -> <<"v", "o", "i", "d">>
    [] kind = "TK_SEMICOLON" -> <<";">>
    [] kind = "TK_ASSIGN" -> <<"=">>
    [] kind = "TK_TEMPLATE" -> <<"t", "e", "m", "p", "l", "a", "t", "e">>
    [] kind = "TK_CLASS" -> <<"c", "l", "a", "s", "s">>
    [] kind = "TK_STRUCT" -> <<"s", "t", "r", "u", "c", "t">>
    [] kind = "TK_UNION" -> <<"u", "n", "i", "o", "n">>
    [] kind = "TK_NAMESPACE" -> <<"n", "a", "m", "e", "s", "p", "a", "c", "e">>
    [] kind = "TK_EXPLICIT" -> <<"e", "x", "p", "l", "i", "c", "i", "t">>
    [] kind = "TK_NUMBER" -> <<"1">>
    [] kind = "TK_SIZEOF" -> <<"s", "i", "z", "e", "o", "f">>
    [] kind = "TK_QUESTION" -> <<"?">>
    [] kind = "TK_THROW" -> <<"t", "h", "r", "o", "w">>
    [] kind = "TK_USING" -> <<"u", "s", "i", "n", "g">>
    [] kind = "TK_UNION" -> <<"u", "n", "i", "o", "n">>
    [] kind = "TK_FOR" -> <<"f", "o", "r">>
    [] kind = "TK_WHILE" -> <<"w", "h", "i", "l", "e">>
    [] kind = "TK_DO" -> <<"d", "o">>
    [] kind = "TK_SWITCH" -> <<"s", "w", "i", "t", "c", "h">>
    [] kind = "TK_BREAK" -> <<"b", "r", "e", "a", "k">>
    [] kind = "TK_CONTINUE" -> <<"c", "o", "n", "t", "i", "n", "u", "e">>
    [] kind = "TK_IF" -> <<"i", "f">>
    [] kind = "TK_VOLATILE" -> <<"v", "o", "l", "a", "t", "i", "l", "e">>
    [] kind = "TK_ASM" -> <<"a", "s", "m">>
    [] kind = "TK_ELSE" -> <<"e", "l", "s", "e">>
    [] kind = "TK_POUNDIF" -> <<"#", "i", "f">>
    [] kind = "TK_IFDEF" -> <<"#", "i", "f", "d", "e", "f">>
    [] kind = "TK_IFNDEF" -> <<"#", "i", "f", "n", "d", "e", "f">>
    [] kind = "TK_ENDIF" -> <<"#", "e", "n", "d", "i", "f">>
    [] kind = "TK_POUNDELSE" -> <<"#", "e", "l", "s", "e">>
    [] kind = "TK_VIRTUAL" -> <<"v", "i", "r", "t", "u", "a", "l">>
    [] kind = "TK_TILDE" -> <<"~">>
    [] kind = "TK_PUBLIC" -> <<"p", "u", "b", "l", "i", "c">>
    [] kind = "TK_PROTECTED" -> <<"p", "r", "o", "t", "e", "c", "t", "e", "d">>
    [] kind = "TK_PRIVATE" -> <<"p", "r", "i", "v", "a", "t", "e">>
    [] kind = "TK_COLON" -> <<":">>
    [] kind = "TK_FRIEND" -> <<"f", "r", "i", "e", "n", "d">>
    [] OTHER -> <<>>

\* the token vector of the given kinds, closed by TK_EOF
Stream(kinds) ==
  [i \in 1..(Len(kinds) + 1) |->
     IF i <= Len(kinds) THEN Token(kinds[i], ValueOf(kinds[i]), i, <<>>)
     ELSE Token("TK_EOF", eof, i, <<>>)]

NavStreams ==
  { Stream(k) : k \in SeqsUpTo(BraceKinds, MaxNavLen) \cup SeqsUpTo(AngleKinds, MaxNavLen)
                      \cup SeqsUpTo(ArgKinds, MaxNavLen) \cup NavSamples }

\* the token lists the checks look for with atSequence
KindLists ==
  { <<"TK_IDENTIFIER", "TK_LPAREN">>,
    <<"TK_LESS">>,
    <<"TK_LPAREN", "TK_IDENTIFIER", "TK_RPAREN">> }

\* tokenize is not running
IdleTokenizer ==
  /\ input = <<>>
  /\ mem = <<NUL>>
  /\ pc = 1
  /\ line = 1
  /\ whitespace = <<>>
  /\ output = <<>>
  /\ structures = <<>>
  /\ tstate = "idle"

InitNavigate ==
  /\ IdleTokenizer
  /\ IdleRun
  /\ tokens \in NavStreams
  /\ impl = "flint"
  /\ call = NoNav
  /\ pos = 0
  /\ errors = <<>>
  /\ cstate = "idle"
  /\ nestedClasses = <<>>
  /\ IdleScopes
  /\ IdleBlacklist
  /\ decls = <<>>

UnchangedButCall ==
  UNCHANGED <<tokVars, tokens, impl, pos, errors, cstate, nestedClasses, decls, scopeVars, blacklistVars, runVars>>

Positions == 0..(Len(tokens) - 1)

CallAtSequence ==
  /\ cstate = "idle" /\ tstate = "idle" /\ call = NoNav
  /\ \E p \in Positions, list \in KindLists :
       call' = [op |-> "atSequence", impl |-> "flint", pos |-> p, kinds |-> list,
                ret |-> atSequence(tokens, p, list), outside |-> FALSE]
  /\ UnchangedButCall

\* a read behind the vector yields some value, so either answer
CallAtSequenceCxx ==
  /\ cstate = "idle" /\ tstate = "idle" /\ call = NoNav
  /\ \E p \in Positions, list \in KindLists :
       LET r == cxx_atSequence(tokens, p, list) IN
       \E b \in BOOLEAN :
         /\ r = "true" => b
         /\ r = "false" => ~b
         /\ call' = [op |-> "atSequence", impl |-> "cxx", pos |-> p, kinds |-> list,
                     ret |-> b, outside |-> (r = "outside")]
  /\ UnchangedButCall

CallSkipBlock ==
  /\ cstate = "idle" /\ tstate = "idle" /\ call = NoNav
  /\ \E p \in Positions :
       /\ TypeAt(tokens, p) = "TK_LCURL"
       /\ call' = [op |-> "skipBlock", impl |-> "flint", pos |-> p,
                   ret |-> skipBlock(tokens, p)]
  /\ UnchangedButCall

CallSkipBlockCxx ==
  /\ cstate = "idle" /\ tstate = "idle" /\ call = NoNav
  /\ \E p \in Positions :
       /\ TypeAt(tokens, p) = "TK_LCURL"
       /\ call' = [op |-> "skipBlock", impl |-> "cxx", pos |-> p,
                   ret |-> cxx_skipBlock(tokens, p)]
  /\ UnchangedButCall

CallSkipTemplateSpec ==
  /\ cstate = "idle" /\ tstate = "idle" /\ call = NoNav
  /\ \E p \in Positions :
       /\ TypeAt(tokens, p) = "TK_LESS"
       /\ call' = [op |-> "skipTemplateSpec", impl |-> "flint", pos |-> p,
                   ret |-> skipTemplateSpec(tokens, p)]
  /\ UnchangedButCall

CallSkipTemplateSpecCxx ==
  /\ cstate = "idle" /\ tstate = "idle" /\ call = NoNav
  /\ \E p \in Positions :
       /\ TypeAt(tokens, p) = "TK_LESS"
       /\ call' = [op |-> "skipTemplateSpec", impl |-> "cxx", pos |-> p,
                   ret |-> cxx_skipTemplateSpec(tokens, p)]
  /\ UnchangedButCall

CallGetRealArguments ==
  /\ cstate = "idle" /\ tstate = "idle" /\ call = NoNav
  /\ \E p \in Positions :
       /\ TypeAt(tokens, p) = "TK_LPAREN"
       /\ call' = [op |-> "getRealArguments", impl |-> "flint", pos |-> p,
                   ret |-> getRealArguments(tokens, p, <<>>)]
  /\ UnchangedButCall

CallGetRealArgumentsCxx ==
  /\ cstate = "idle" /\ tstate = "idle" /\ call = NoNav
  /\ \E p \in Positions :
       /\ TypeAt(tokens, p) = "TK_LPAREN"
       /\ call' = [op |-> "getRealArguments", impl |-> "cxx", pos |-> p,
                   ret |-> cxx_getRealArguments(tokens, p, <<>>)]
  /\ UnchangedButCall

NextNavigate ==
  \/ CallAtSequence
  \/ CallAtSequenceCxx
  \/ CallSkipBlock
  \/ CallSkipBlockCxx
  \/ CallSkipTemplateSpec
  \/ CallSkipTemplateSpecCxx
  \/ CallGetRealArguments
  \/ CallGetRealArgumentsCxx

SpecNavigate == InitNavigate /\ [][NextNavigate]_vars

\* the position of the TK_EOF token
EofPos == Len(tokens) - 1

\* opening minus closing tokens among tokens[a] .. tokens[b]
Balance(a, b, open, close) ==
  Cardinality({i \in a..b : TypeAt(tokens, i) = open})
    - Cardinality({i \in a..b : TypeAt(tokens, i) = close})

\* the positions of the closing token that matches the opening token at p
Closers(p, open, close) ==
  { q \in (p + 1)..EofPos :
      /\ TypeAt(tokens, q) = close
      /\ Balance(p, q, open, close) = 0
      /\ \A r \in p..(q - 1) : Balance(p, r, open, close) > 0 }

\* C3: atSequence(tokens, pos, kinds) answers true exactly when kinds fits in the
\* stream from pos on and tokens[pos + i] has kind kinds[i] for every i, and it
\* reads nothing outside the stream.
C3_AtSequenceExact ==
  call.op = "atSequence" =>
    /\ call.ret <=> /\ call.pos + Len(call.kinds) <= Len(tokens)
                    /\ \A i \in 1..Len(call.kinds) :
                         TypeAt(tokens, call.pos + i - 1) = call.kinds[i]
    /\ ~call.outside

\* C4: skipBlock called on a TK_LCURL returns the position of the TK_RCURL that
\* closes it, nested braces counted, when there is one before TK_EOF, and the
\* position of TK_EOF otherwise; the position is never behind the stream.
C4_SkipBlockMatchingBrace ==
  call.op = "skipBlock" =>
    /\ call.ret \in Positions
    /\ \A q \in Closers(call.pos, "TK_LCURL", "TK_RCURL") : call.ret = q
    /\ Closers(call.pos, "TK_LCURL", "TK_RCURL") = {} => call.ret = EofPos

\* a nested block is stepped over and the outer closing brace is found
C4_Witness ==
  /\ call.op = "skipBlock"
  /\ call.ret # EofPos
  /\ \E r \in (call.pos + 1)..(call.ret - 1) : TypeAt(tokens, r) = "TK_RCURL"

\* the other outcome: the block is not closed
C4_WitnessEof ==
  /\ call.op = "skipBlock"
  /\ call.ret = EofPos
  /\ \E r \in (call.pos + 1)..EofPos : TypeAt(tokens, r) = "TK_RCURL"

\* parentheses open at r among the tokens behind p, a stray closing one not counted
RECURSIVE ParenDepth(_, _)
ParenDepth(p, r) ==
  IF r <= p THEN 0
  ELSE LET d == ParenDepth(p, r - 1) IN
       IF TypeAt(tokens, r) = "TK_LPAREN" THEN d + 1
       ELSE IF TypeAt(tokens, r) = "TK_RPAREN" THEN (IF d > 0 THEN d - 1 ELSE 0)
       ELSE d

OutsideParens(p, r) ==
  /\ TypeAt(tokens, r) \notin {"TK_LPAREN", "TK_RPAREN"}
  /\ ParenDepth(p, r) = 0

\* angle brackets open at r, the one at p included, those inside parentheses not counted
AngleDepth(p, r) ==
  1 + Cardinality({j \in (p + 1)..r : OutsideParens(p, j) /\ TypeAt(tokens, j) = "TK_LESS"})
    - Cardinality({j \in (p + 1)..r : OutsideParens(p, j) /\ TypeAt(tokens, j) = "TK_GREATER"})

AngleClosers(p) ==
  { q \in (p + 1)..EofPos :
      /\ TypeAt(tokens, q) = "TK_GREATER"
      /\ OutsideParens(p, q)
      /\ AngleDepth(p, q) = 0
      /\ \A r \in p..(q - 1) : AngleDepth(p, r) > 0 }

\* C5: skipTemplateSpec called on a TK_LESS returns the position of the TK_GREATER
\* that closes it, nested angle brackets counted outside parentheses only, and
\* returns the position of TK_EOF only when there is no such TK_GREATER.
C5_SkipTemplateSpecMatchingAngle ==
  call.op = "skipTemplateSpec" =>
    /\ \A q \in AngleClosers(call.pos) : call.ret.pos = q
    /\ call.ret.pos = EofPos => AngleClosers(call.pos) = {}

\* the commas that separate the arguments of the call opened at p and closed at q
TopCommas(p, q) ==
  { r \in (p + 1)..(q - 1) :
      TypeAt(tokens, r) = "TK_COMMA" /\ Balance(p, r, "TK_LPAREN", "TK_RPAREN") = 1 }

\* the spans between neighbouring cuts, the one before the closing parenthesis
\* only when it holds a token
TopSpans(p, q) ==
  LET cuts == {p} \cup TopCommas(p, q) \cup {q} IN
  { Argument(x[1] + 1, x[2]) :
      x \in { y \in cuts \X cuts :
                /\ y[1] < y[2]
                /\ \A c \in cuts : ~(y[1] < c /\ c < y[2])
                /\ ~(y[2] = q /\ y[1] + 1 = q) } }

C6_WitnessEmptyLast ==
  /\ call.op = "getRealArguments" /\ call.impl = "flint"
  /\ call.ret.ret
  /\ Len(call.ret.args) = 1
  /\ TypeAt(tokens, call.ret.pos - 1) = "TK_COMMA"

---------------------------------------------------------------------------
(* checkCatchByReference (src/flint/Checks.cpp, src/cxx/Checks.cpp), one    *)
(* action per iteration of its loop over the tokens.                         *)

\* ErrorObject(type, line, title, desc) as lintError and the others add it; the
\* cxx version prints the same type, line and text and counts it
ErrorObject(type, ln, title, desc) == [type |-> type, line |-> ln, title |-> title, desc |-> desc]

\* the values of tokens[a] .. tokens[b], which the code joins with spaces
Values(toks, a, b) == [j \in 1..(b - a + 1) |-> toks[a + j].value_]

\* the loop that moves the focus to the closing parenthesis; a is the position
\* of the focus in the stream and p that of the catch token. flint holds the
\* focus as a position of the stream; cxx holds it relative to the catch token
\* and compares that with v.size(), so behind a catch that is not the first
\* token it reads behind the vector before it gives up.
RECURSIVE closingParenFrom(_, _, _, _, _)
closingParenFrom(toks, a, parens, p, im) ==
  IF (IF im = "flint" THEN a ELSE a - p) >= Len(toks) THEN [k |-> "throw", unclosed |-> TRUE]
  ELSE IF a >= Len(toks) THEN [k |-> "outside"]
  ELSE IF TypeAt(toks, a) = "TK_RPAREN"
       THEN (IF parens = 0 THEN [k |-> "at", focal |-> a]
             ELSE closingParenFrom(toks, a + 1, parens - 1, p, im))
  ELSE IF TypeAt(toks, a) = "TK_LPAREN" THEN closingParenFrom(toks, a + 1, parens + 1, p, im)
  ELSE closingParenFrom(toks, a + 1, parens, p, im)

\* the loop entered as if one parenthesis were open behind the type
closingParen_oneOpen(toks, a, p, im) == closingParenFrom(toks, a, 1, p, im)

\* for (size_t parens = 0;; ++focal)
closingParen(toks, a, p, im) == closingParenFrom(toks, a, 0, p, im)

\* the body of the loop of checkCatchByReference on the catch token at p
catchClause(toks, p, im) ==
  IF TypeAt(toks, p + 1) # "TK_LPAREN" THEN [k |-> "throw", unclosed |-> FALSE]
  ELSE IF TypeAt(toks, p + 2) = "TK_ELLIPSIS" THEN [k |-> "continue"]
  ELSE LET f2 == p + 2
           f3 == IF TypeAt(toks, f2) = "TK_CONST" THEN f2 + 1 ELSE f2
           f4 == IF TypeAt(toks, f3) = "TK_TYPENAME" THEN f3 + 1 ELSE f3
           f5 == IF TypeAt(toks, f4) = "TK_DOUBLE_COLON" THEN f4 + 1 ELSE f4
       IN  IF TypeAt(toks, f5) # "TK_IDENTIFIER"
           THEN [k |-> "lint",
                 error |-> ErrorObject("WARNING", toks[f5 + 1].line_,
                                       <<"Symbol", toks[f5 + 1].value_, "invalid in catch clause.">>,
                                       "You may only catch user-defined types.")]
           ELSE LET c == closingParen(toks, f5 + 1, p, im) IN
                IF c.k # "at" THEN c
                ELSE IF TypeAt(toks, c.focal - 1) = "TK_AMPERSAND" THEN [k |-> "continue"]
                ELSE IF /\ TypeAt(toks, c.focal - 1) = "TK_IDENTIFIER"
                        /\ TypeAt(toks, c.focal - 2) = "TK_AMPERSAND" THEN [k |-> "continue"]
                ELSE LET theType == IF im = "flint" THEN Values(toks, 2, c.focal - 1)
                                    ELSE Values(toks, p + 2, c.focal - 2)
                     IN  [k |-> "lint",
                          error |-> ErrorObject("ERROR", toks[c.focal].line_,
                                      <<"Symbol", toks[c.focal].value_, "of type", theType,
                                        "caught by value.">>,
                                      "Use catch by (preferably const) reference throughout.")]

MaxCatchLen == 4

CatchKinds ==
  {"TK_LPAREN", "TK_RPAREN", "TK_ELLIPSIS", "TK_CONST", "TK_IDENTIFIER", "TK_AMPERSAND"}

CatchSamples ==
  { <<"TK_CATCH", "TK_LPAREN", "TK_INT", "TK_IDENTIFIER", "TK_RPAREN",
      "TK_CATCH", "TK_LPAREN", "TK_IDENTIFIER", "TK_LPAREN", "TK_RPAREN", "TK_IDENTIFIER",
      "TK_RPAREN",
      "TK_CATCH", "TK_LPAREN", "TK_ELLIPSIS", "TK_RPAREN">>,
    <<"TK_TRY", "TK_CATCH", "TK_LPAREN", "TK_CONST", "TK_TYPENAME", "TK_DOUBLE_COLON",
      "TK_IDENTIFIER", "TK_DOUBLE_COLON", "TK_IDENTIFIER", "TK_AMPERSAND", "TK_IDENTIFIER",
      "TK_RPAREN">>,
    <<"TK_CATCH", "TK_LPAREN", "TK_IDENTIFIER", "TK_LPAREN", "TK_RPAREN", "TK_AMPERSAND",
      "TK_IDENTIFIER", "TK_RPAREN">>,
    <<"TK_CATCH", "TK_LPAREN", "TK_IDENTIFIER", "TK_CONST", "TK_AMPERSAND", "TK_RPAREN",
      "TK_LCURL", "TK_RCURL">>,
    <<"TK_CATCH", "TK_LPAREN", "TK_TYPENAME", "TK_CONST", "TK_IDENTIFIER", "TK_AMPERSAND",
      "TK_RPAREN">>,
    <<"TK_CATCH", "TK_LPAREN", "TK_IDENTIFIER", "TK_STAR", "TK_IDENTIFIER", "TK_RPAREN">>,
    <<"TK_CATCH", "TK_LCURL", "TK_RCURL">>,
    <<"TK_RCURL", "TK_CATCH">> }

\* a catch clause, first in the stream or behind a closing brace
CatchStreams ==
  { Stream(pre \o <<"TK_CATCH", "TK_LPAREN">> \o s) :
      pre \in {<<>>, <<"TK_RCURL">>}, s \in SeqsUpTo(CatchKinds, MaxCatchLen) }
    \cup { Stream(s) : s \in CatchSamples }

InitCatch ==
  /\ IdleTokenizer
  /\ IdleRun
  /\ tokens \in CatchStreams
  /\ impl \in {"flint", "cxx"}
  /\ call = NoNav
  /\ pos = 0
  /\ errors = <<>>
  /\ cstate = "checkCatchByReference"
  /\ nestedClasses = <<>>
  /\ IdleScopes
  /\ IdleBlacklist
  /\ decls = <<>>

UnchangedButCheck == UNCHANGED <<tokVars, tokens, impl, call, nestedClasses, decls, scopeVars, blacklistVars, runVars>>

AtCatch ==
  /\ cstate = "checkCatchByReference"
  /\ pos < Len(tokens)
  /\ TypeAt(tokens, pos) = "TK_CATCH"

\* the loop is over
CatchReturn ==
  /\ cstate = "checkCatchByReference"
  /\ ~(pos < Len(tokens))
  /\ cstate' = "done"
  /\ UNCHANGED <<pos, errors>>
  /\ UnchangedButCheck

\* if (!isTok(tokens[pos], TK_CATCH)) continue
CatchOtherToken ==
  /\ cstate = "checkCatchByReference"
  /\ pos < Len(tokens)
  /\ TypeAt(tokens, pos) # "TK_CATCH"
  /\ pos' = pos + 1
  /\ UNCHANGED <<errors, cstate>>
  /\ UnchangedButCheck

\* catch (... , or the clause ends with & or & identifier
CatchContinue ==
  /\ AtCatch
  /\ catchClause(tokens, pos, impl).k = "continue"
  /\ pos' = pos + 1
  /\ UNCHANGED <<errors, cstate>>
  /\ UnchangedButCheck

\* lintWarning or lintError, then the next iteration
CatchLint ==
  /\ AtCatch
  /\ catchClause(tokens, pos, impl).k = "lint"
  /\ errors' = Append(errors, catchClause(tokens, pos, impl).error)
  /\ pos' = pos + 1
  /\ UNCHANGED cstate
  /\ UnchangedButCheck

\* throw runtime_error; for a clause that is not closed the message is built
\* from the line_ of a token behind the vector
CatchThrow ==
  /\ AtCatch
  /\ catchClause(tokens, pos, impl).k = "throw"
  /\ \/ cstate' = "throw"
     \/ catchClause(tokens, pos, impl).unclosed /\ cstate' = "crash"
  /\ UNCHANGED <<pos, errors>>
  /\ UnchangedButCheck

\* cxx only: the focus has left the vector; what is read there is anything, so
\* the search may fail, stop at some point with or without an error, or crash
CatchReadOutside ==
  /\ AtCatch
  /\ catchClause(tokens, pos, impl).k = "outside"
  /\ \/ cstate' \in {"throw", "crash"} /\ UNCHANGED <<pos, errors>>
     \/ cstate' = cstate /\ pos' = pos + 1 /\ errors' = errors
     \/ /\ cstate' = cstate /\ pos' = pos + 1
        /\ errors' = Append(errors, ErrorObject("ERROR", 0, <<>>,
                              "Use catch by (preferably const) reference throughout."))
  /\ UnchangedButCheck

NextCatch ==
  \/ CatchReturn
  \/ CatchOtherToken
  \/ CatchContinue
  \/ CatchLint
  \/ CatchThrow
  \/ CatchReadOutside

SpecCatch == InitCatch /\ [][NextCatch]_vars

\* the token behind the optional const, typename and :: of the clause at p
CaughtTypePos(p) ==
  LET a == IF TypeAt(tokens, p + 2) = "TK_CONST" THEN 1 ELSE 0
      b == IF TypeAt(tokens, p + 2 + a) = "TK_TYPENAME" THEN 1 ELSE 0
      c == IF TypeAt(tokens, p + 2 + a + b) = "TK_DOUBLE_COLON" THEN 1 ELSE 0
  IN  p + 2 + a + b + c

\* exactly one diagnostic of the given type is added
Emits(type) ==
  /\ Len(errors') = Len(errors) + 1
  /\ SubSeq(errors', 1, Len(errors)) = errors
  /\ errors'[Len(errors')].type = type

\* C9: for each catch ( clause checkCatchByReference emits nothing for catch (...),
\* one Warning when the token behind the optional const, typename and :: is not an
\* identifier, and otherwise, with q the parenthesis closing the clause, nothing
\* when tokens[q-1] is & or is an identifier behind &, and one Error if not.
C9_CatchClauseDiagnostics ==
  [][ (AtCatch /\ TypeAt(tokens, pos + 1) = "TK_LPAREN") =>
        IF TypeAt(tokens, pos + 2) = "TK_ELLIPSIS" THEN errors' = errors /\ cstate' = cstate
        ELSE IF TypeAt(tokens, CaughtTypePos(pos)) # "TK_IDENTIFIER"
             THEN Emits("WARNING") /\ cstate' = cstate
        ELSE \A q \in Closers(pos + 1, "TK_LPAREN", "TK_RPAREN") :
               /\ cstate' = cstate
               /\ IF \/ TypeAt(tokens, q - 1) = "TK_AMPERSAND"
                     \/ /\ TypeAt(tokens, q - 1) = "TK_IDENTIFIER"
                        /\ TypeAt(tokens, q - 2) = "TK_AMPERSAND"
                  THEN errors' = errors
                  ELSE Emits("ERROR") ]_vars

\* a file with a clause caught by value around inner parentheses, a clause with
\* a built-in type and a catch (...) has been checked to its end
C9_Witness ==
  /\ cstate = "done"
  /\ Len(errors) = 2
  /\ errors[1].type = "WARNING" /\ errors[2].type = "ERROR"
  /\ \E p \in Positions : TypeAt(tokens, p) = "TK_ELLIPSIS"

\* a clause by reference around inner parentheses is accepted
C9_WitnessReference ==
  /\ cstate = "done"
  /\ errors = <<>>
  /\ \E p \in Positions : TypeAt(tokens, p) = "TK_CATCH" /\ TypeAt(tokens, p + 3) = "TK_LPAREN"
  /\ \E p \in Positions : TypeAt(tokens, p) = "TK_AMPERSAND"

---------------------------------------------------------------------------
(* checkConstructors (src/flint/Checks.cpp, src/cxx/Checks.cpp) on a file   *)
(* that is not a C source: one action per iteration of the loop over the    *)
(* tokens, the callback of iterateClasses being part of its iteration.      *)

ValueAt(toks, p) == toks[p + 1].value_

\* hay.find(needle) != string::npos
find(hay, needle) ==
  \E i \in 1..(Len(hay) - Len(needle) + 1) : SubSeq(hay, i, i + Len(needle) - 1) = needle

lintOverride == <<"/", "*", " ", "i", "m", "p", "l", "i", "c", "i", "t", " ", "*", "/">>

stdInitializerSequence == <<"TK_IDENTIFIER", "TK_DOUBLE_COLON", "TK_IDENTIFIER", "TK_LESS">>

constructorSequence == <<"TK_IDENTIFIER", "TK_LPAREN">>

voidConstructorSequence == <<"TK_IDENTIFIER", "TK_LPAREN", "TK_VOID", "TK_RPAREN">>

std == <<"s", "t", "d">>

initializer_list ==
  <<"i", "n", "i", "t", "i", "a", "l", "i", "z", "e", "r", "_", "l", "i", "s", "t">>

\* formatArg: the values of the span, a space before those that had whitespace
formatArg(toks, arg) ==
  [j \in 1..(arg.last - arg.first) |->
     [value |-> ValueAt(toks, arg.first + j - 1),
      spaced |-> j > 1 /\ toks[arg.first + j].precedingWhitespace_ # <<>>]]

\* formatFunction: the name, then the arguments between parentheses
formatFunction(toks, func, args) ==
  [name |-> formatArg(toks, func), args |-> [i \in 1..Len(args) |-> formatArg(toks, args[i])]]

\* what both versions do with the arguments of a constructor once they are
\* split: the diagnostics to add, none or one. r is the result of
\* getFunctionNameAndArguments, tok the token of the name.
constructorLint(toks, tok, objName, r, im) ==
  LET args    == r.args
      isConst == TypeAt(toks, args[1].first) = "TK_CONST"
      argPos  == IF isConst THEN args[1].first + 1 ELSE args[1].first
      nextType == IF argPos + 1 # args[1].last THEN TypeAt(toks, argPos + 1) ELSE "TK_EOF"
      atInit  == IF im = "flint" THEN atSequence(toks, argPos, stdInitializerSequence)
                 ELSE cxx_atSequence(toks, argPos, stdInitializerSequence) = "true"
      sig     == formatFunction(toks, r.func, args)
  IN  IF ValueAt(toks, argPos) = objName /\ nextType # "TK_STAR"
      THEN (IF nextType = "TK_AMPERSAND" /\ ~isConst
            THEN <<ErrorObject("ERROR", tok.line_,
                               <<"Copy constructors should take a const argument:", sig>>, "")>>
            ELSE IF nextType = "TK_LOGICAL_AND" /\ isConst
            THEN <<ErrorObject("ERROR", tok.line_,
                               <<"Move constructors should not take a const argument:", sig>>, "")>>
            ELSE <<>>)
      ELSE IF /\ atInit
              /\ ValueAt(toks, argPos) = std
              /\ ValueAt(toks, argPos + 2) = initializer_list
      THEN <<>>
      ELSE IF \/ Len(args) = 1
              \/ /\ Len(args) >= 2
                 /\ \E a \in args[2].first..(args[2].last - 1) : TypeAt(toks, a) = "TK_ASSIGN"
      THEN <<ErrorObject("ERROR", tok.line_,
                         <<IF im = "flint" THEN "Single - argument constructor"
                           ELSE "Single-argument constructor", sig,
                           "may inadvertently be used as a type conversion constructor.">>,
                         "Prefix the function with the 'explicit' keyword to avoid this, or add an /* implicit */ comment to suppress this warning.")>>
      ELSE <<>>

\* flint: the loop over the body of the class, from p on; the result is the
\* diagnostics, those of the body added to errs
RECURSIVE constructorsIn(_, _, _, _)
constructorsIn(toks, p, objName, errs) ==
  IF AtEnd(toks, p) THEN errs
  ELSE LET tok == toks[p + 1] IN
       IF tok.type_ = "TK_LCURL" THEN constructorsIn(toks, skipBlock(toks, p) + 1, objName, errs)
       ELSE IF tok.type_ = "TK_RCURL" THEN errs
       \* pos = skipFunctionDeclaration(tokens, pos); break;
       ELSE IF tok.type_ = "TK_EXPLICIT" THEN errs
       ELSE IF atSequence(toks, p, constructorSequence) /\ tok.value_ = objName
       THEN (IF atSequence(toks, p, voidConstructorSequence)
             THEN constructorsIn(toks, skipFunctionDeclaration(toks, p) + 1, objName, errs)
             ELSE IF find(tok.precedingWhitespace_, lintOverride)
             THEN constructorsIn(toks, skipFunctionDeclaration(toks, p) + 1, objName, errs)
             ELSE LET r == getFunctionNameAndArguments(toks, p, <<>>) IN
                  IF ~r.ret THEN errs
                  ELSE IF r.args = <<>>
                  THEN constructorsIn(toks, skipFunctionDeclaration(toks, r.pos) + 1, objName, errs)
                  ELSE constructorsIn(toks, skipFunctionDeclaration(toks, r.pos) + 1, objName,
                                      errs \o constructorLint(toks, tok, objName, r, "flint")))
       ELSE constructorsIn(toks, p + 1, objName, errs)

\* flint: "Skip to opening '{'"; -1 stands for the return at a semicolon
RECURSIVE openingCurl(_, _)
openingCurl(toks, p) ==
  IF ~(p < Len(toks)) \/ TypeAt(toks, p) = "TK_LCURL" THEN p
  ELSE IF TypeAt(toks, p) = "TK_SEMICOLON" THEN -1
  ELSE openingCurl(toks, p + 1)

\* flint: the callback that checkConstructors hands to iterateClasses
constructorsCallback(toks, p, errs) ==
  IF ~(TypeAt(toks, p) \in {"TK_STRUCT", "TK_CLASS"}) THEN errs
  ELSE IF TypeAt(toks, p + 1) # "TK_IDENTIFIER" THEN errs
  ELSE LET curl == openingCurl(toks, p + 1) IN
       IF curl = -1 THEN errs
       ELSE constructorsIn(toks, curl + 1, ValueAt(toks, p + 1), errs)

\* cxx: the scan behind namespace or behind the name of a class, to the first
\* semicolon, opening brace or TK_EOF
RECURSIVE cxx_toBlock(_, _)
cxx_toBlock(toks, p) ==
  IF TypeAt(toks, p) \in {"TK_EOF", "TK_SEMICOLON", "TK_LCURL"} THEN p
  ELSE cxx_toBlock(toks, p + 1)

Continue(p, stack, lint) == [k |-> "continue", it |-> p, stack |-> stack, lint |-> lint]

\* cxx: the body of the loop of checkConstructors with the iterator on p; it in
\* the result is the iterator as the body leaves it, before the ++it of the loop
cxx_constructorsBody(toks, p, stack) ==
  LET tok == toks[p + 1]
      ty  == tok.type_
      top == stack[Len(stack)]
  IN
  IF cxx_atSequence(toks, p, <<"TK_TEMPLATE", "TK_LESS">>) = "true"
    THEN Continue(cxx_skipTemplateSpec(toks, p + 1).pos, stack, <<>>)
  ELSE IF ty = "TK_NAMESPACE"
    THEN LET b == cxx_toBlock(toks, p + 1) IN
         Continue(b, IF TypeAt(toks, b) = "TK_LCURL" THEN Append(stack, <<>>) ELSE stack, <<>>)
  ELSE IF ty \in {"TK_CLASS", "TK_STRUCT"}
    THEN (IF TypeAt(toks, p + 1) = "TK_LCURL" THEN Continue(p + 1, Append(stack, <<>>), <<>>)
          ELSE IF TypeAt(toks, p + 1) = "TK_IDENTIFIER"
          THEN LET b == cxx_toBlock(toks, p + 1) IN
               Continue(b, IF TypeAt(toks, b) = "TK_LCURL"
                           THEN Append(stack, ValueAt(toks, p + 1)) ELSE stack, <<>>)
          ELSE Continue(p + 1, stack, <<>>))
  ELSE IF ty = "TK_RCURL"
    THEN (IF stack = <<>> THEN [k |-> "return"]
          ELSE Continue(p, SubSeq(stack, 1, Len(stack) - 1), <<>>))
  ELSE IF ty = "TK_LCURL" THEN Continue(cxx_skipBlock(toks, p), stack, <<>>)
  ELSE IF stack = <<>> THEN Continue(p, stack, <<>>)
  ELSE IF ty = "TK_EXPLICIT" THEN Continue(cxx_skipFunctionDeclaration(toks, p), stack, <<>>)
  ELSE IF cxx_atSequence(toks, p, constructorSequence) # "true" THEN Continue(p, stack, <<>>)
  ELSE IF tok.value_ # top THEN Continue(cxx_skipFunctionDeclaration(toks, p), stack, <<>>)
  ELSE IF find(tok.precedingWhitespace_, lintOverride)
    THEN Continue(cxx_skipFunctionDeclaration(toks, p), stack, <<>>)
  ELSE IF cxx_atSequence(toks, p, voidConstructorSequence) = "true"
    THEN Continue(cxx_skipFunctionDeclaration(toks, p), stack, <<>>)
  ELSE LET r == cxx_getFunctionNameAndArguments(toks, p, <<>>) IN
       IF ~r.ret THEN [k |-> "return"]
       ELSE IF r.args = <<>> THEN Continue(cxx_skipFunctionDeclaration(toks, r.pos), stack, <<>>)
       ELSE Continue(cxx_skipFunctionDeclaration(toks, r.pos), stack,
                     constructorLint(toks, tok, top, r, "cxx"))

(* The files checked: one class, in a namespace or behind a template header   *)
(* or neither, whose body is a list of member declarations. decls keeps the  *)
(* declarations the tokens were written from.                                *)

MaxMembers == 2

Item(type, value, ws) == [type_ |-> type, value_ |-> value, ws |-> ws]

\* a keyword or punctuation token, a space before it
K(type) == Item(type, ValueOf(type), <<SP>>)

Id(name) == Item("TK_IDENTIFIER", name, <<SP>>)

Num(digits) == Item("TK_NUMBER", digits, <<SP>>)

\* the token vector of the items, closed by TK_EOF; line_ numbers the tokens
Lex(items) ==
  [i \in 1..(Len(items) + 1) |->
     IF i <= Len(items) THEN Token(items[i].type_, items[i].value_, i, items[i].ws)
     ELSE Token("TK_EOF", eof, i, <<>>)]

ClassName == <<"C">>

\* a parameter: its tokens, whether its type is the class, whether it is a
\* std::initializer_list, whether it has a default value
Param(items, ofClass, initList, default) ==
  [items |-> items, ofClass |-> ofClass, initList |-> initList, default |-> default]

IntA == Param(<<K("TK_INT"), Id(<<"a">>)>>, FALSE, FALSE, FALSE)

IntB == Param(<<K("TK_INT"), Id(<<"b">>)>>, FALSE, FALSE, FALSE)

IntBDefault ==
  Param(<<K("TK_INT"), Id(<<"b">>), K("TK_ASSIGN"), K("TK_NUMBER")>>, FALSE, FALSE, TRUE)

ConstRef ==
  Param(<<K("TK_CONST"), Id(ClassName), K("TK_AMPERSAND"), Id(<<"o">>)>>, TRUE, FALSE, FALSE)

Pointer == Param(<<Id(ClassName), K("TK_STAR"), Id(<<"p">>)>>, FALSE, FALSE, FALSE)

InitList ==
  Param(<<Id(std), K("TK_DOUBLE_COLON"), Id(initializer_list), K("TK_LESS"), K("TK_INT"),
          K("TK_GREATER"), Id(<<"l">>)>>, FALSE, TRUE, FALSE)

\* one parameter whose type has two template arguments
MapParam ==
  Param(<<Id(<<"m", "a", "p">>), K("TK_LESS"), K("TK_INT"), K("TK_COMMA"), K("TK_INT"),
          K("TK_GREATER"), Id(<<"m">>)>>, FALSE, FALSE, FALSE)

\* one parameter whose default value is a comparison
LessDefault ==
  Param(<<K("TK_INT"), Id(<<"a">>), K("TK_ASSIGN"), K("TK_NUMBER"), K("TK_LESS"), K("TK_NUMBER")>>,
        FALSE, FALSE, TRUE)

Member(kind, marker, void, params, body) ==
  [kind |-> kind, marker |-> marker, void |-> void, params |-> params, body |-> body]

Members ==
  { Member("ctor", "none", FALSE, <<IntA>>, "proto"),
    Member("ctor", "none", FALSE, <<IntA>>, "inline"),
    Member("ctor", "none", FALSE, <<>>, "proto"),
    Member("ctor", "none", TRUE, <<>>, "proto"),
    Member("ctor", "none", FALSE, <<IntA, IntB>>, "proto"),
    Member("ctor", "none", FALSE, <<IntA, IntBDefault>>, "proto"),
    Member("ctor", "explicit", FALSE, <<IntA>>, "proto"),
    Member("ctor", "implicit", FALSE, <<IntA>>, "proto"),
    Member("ctor", "none", FALSE, <<ConstRef>>, "proto"),
    Member("ctor", "none", FALSE, <<Pointer>>, "proto"),
    Member("ctor", "none", FALSE, <<InitList>>, "proto"),
    Member("ctor", "none", FALSE, <<MapParam>>, "proto"),
    Member("ctor", "none", FALSE, <<LessDefault>>, "proto"),
    Member("method", "none", FALSE, <<IntA>>, "inline") }

\* parameters of the type of the class: C & o, const C && o, C && o, C o
MutableRef == Param(<<Id(ClassName), K("TK_AMPERSAND"), Id(<<"o">>)>>, TRUE, FALSE, FALSE)

ConstMove ==
  Param(<<K("TK_CONST"), Id(ClassName), K("TK_LOGICAL_AND"), Id(<<"o">>)>>, TRUE, FALSE, FALSE)

Move == Param(<<Id(ClassName), K("TK_LOGICAL_AND"), Id(<<"o">>)>>, TRUE, FALSE, FALSE)

ByValue == Param(<<Id(ClassName), Id(<<"o">>)>>, TRUE, FALSE, FALSE)

CopyMoveMembers ==
  { Member("ctor", "none", FALSE, <<MutableRef>>, "proto"),
    Member("ctor", "none", FALSE, <<ConstMove>>, "proto"),
    Member("ctor", "none", FALSE, <<Move>>, "proto"),
    Member("ctor", "none", FALSE, <<ByValue>>, "proto"),
    Member("ctor", "none", FALSE, <<ConstRef>>, "inline"),
    Member("ctor", "none", FALSE, <<MutableRef, IntBDefault>>, "proto") }

\* a copy or move constructor alone, behind a plain one and behind an explicit one
CopyMoveFiles ==
  [wrap : {"none"}, key : {"TK_CLASS"},
   members : { <<m>> : m \in CopyMoveMembers }
     \cup { <<Member("ctor", "none", FALSE, <<IntA>>, "proto"), m>> : m \in CopyMoveMembers }
     \cup { <<Member("ctor", "explicit", FALSE, <<IntA>>, "proto"), m>> : m \in CopyMoveMembers }]

\* the declarations put into the nested classes: X(int a); in the name of one
\* of the classes, the same behind void, behind explicit in the name of the
\* class cls it stands in, and a member function whose body calls CC and DD
NestedDeclItems(d, cls) ==
  LET IntParam == <<K("TK_LPAREN"), K("TK_INT"), Id(<<"a">>), K("TK_RPAREN"), K("TK_SEMICOLON")>>
      Call(name) == <<Id(name), K("TK_LPAREN"), Num(<<"1">>), K("TK_RPAREN"), K("TK_SEMICOLON")>>
  IN
  CASE d = "CC"       -> <<Id(<<"C", "C">>)>> \o IntParam
    [] d = "DD"       -> <<Id(<<"D", "D">>)>> \o IntParam
    [] d = "voidCC"   -> <<K("TK_VOID"), Id(<<"C", "C">>)>> \o IntParam
    [] d = "voidDD"   -> <<K("TK_VOID"), Id(<<"D", "D">>)>> \o IntParam
    [] d = "explicit" -> <<K("TK_EXPLICIT"), Id(cls)>> \o IntParam
    [] d = "call"     -> <<K("TK_VOID"), Id(<<"f">>), K("TK_LPAREN"), K("TK_RPAREN"), K("TK_LCURL")>>
                           \o Call(<<"C", "C">>) \o Call(<<"D", "D">>) \o <<K("TK_RCURL")>>

NestedDecls == {"CC", "DD", "voidCC", "voidDD", "explicit", "call"}

RECURSIVE NestedDeclsItems(_, _)
NestedDeclsItems(ds, cls) ==
  IF ds = <<>> THEN <<>> ELSE NestedDeclItems(Head(ds), cls) \o NestedDeclsItems(Tail(ds), cls)

\* class CC { class DD { inner }; outer }; after, as in the nested-blocks text of
\* testCheckConstructors: with or without a namespace around the classes and
\* with functions behind them
NestedFiles ==
  [wrap : {"nested"}, key : {"TK_CLASS"}, members : {<<>>},
   inner : SeqsUpTo(NestedDecls, 1)
             \cup {<<"explicit", "DD">>, <<"DD", "voidCC">>, <<"call", "DD">>},
   outer : SeqsUpTo(NestedDecls, 1) \cup {<<"voidDD", "CC">>},
   scope : {[ns |-> FALSE, after |-> <<>>], [ns |-> TRUE, after |-> <<"voidCC">>],
            [ns |-> FALSE, after |-> <<"voidDD">>]}]

NestedBefore(f) ==
  (IF f.scope.ns THEN <<K("TK_NAMESPACE"), Id(<<"A", "A">>), K("TK_LCURL")>> ELSE <<>>)
    \o <<K("TK_CLASS"), Id(<<"C", "C">>), K("TK_LCURL"),
         K("TK_CLASS"), Id(<<"D", "D">>), K("TK_LCURL")>>

NestedItems(f) ==
  NestedBefore(f) \o NestedDeclsItems(f.inner, <<"D", "D">>)
    \o <<K("TK_RCURL"), K("TK_SEMICOLON")>>
    \o NestedDeclsItems(f.outer, <<"C", "C">>)
    \o <<K("TK_RCURL"), K("TK_SEMICOLON")>>
    \o (IF f.scope.ns THEN <<K("TK_RCURL")>> ELSE <<>>)
    \o NestedDeclsItems(f.scope.after, <<>>)

Files ==
  [wrap : {"none"}, key : {"TK_CLASS", "TK_STRUCT"}, members : SeqsUpTo(Members, MaxMembers)]
    \cup [wrap : {"template"}, key : {"TK_CLASS"}, members : SeqsUpTo(Members, MaxMembers)]
    \cup [wrap : {"namespace"}, key : {"TK_STRUCT"}, members : SeqsUpTo(Members, MaxMembers)]
    \cup CopyMoveFiles
    \cup NestedFiles

\* the tokens before the name of the member: explicit, or the return type
MarkerItems(m) ==
  IF m.kind = "method" THEN <<K("TK_VOID")>>
  ELSE IF m.marker = "explicit" THEN <<K("TK_EXPLICIT")>>
  ELSE <<>>

NameItem(m) ==
  IF m.kind = "method" THEN Id(<<"f">>)
  ELSE IF m.marker = "implicit" THEN Item("TK_IDENTIFIER", ClassName, <<SP>> \o lintOverride \o <<SP>>)
  ELSE Id(ClassName)

RECURSIVE ParamItems(_)
ParamItems(params) ==
  IF params = <<>> THEN <<>>
  ELSE IF Len(params) = 1 THEN params[1].items
  ELSE params[1].items \o <<K("TK_COMMA")>> \o ParamItems(Tail(params))

MemberItems(m) ==
  MarkerItems(m) \o <<NameItem(m), K("TK_LPAREN")>>
    \o (IF m.void THEN <<K("TK_VOID")>> ELSE ParamItems(m.params))
    \o <<K("TK_RPAREN")>>
    \o (IF m.body = "proto" THEN <<K("TK_SEMICOLON")>> ELSE <<K("TK_LCURL"), K("TK_RCURL")>>)

RECURSIVE MembersItems(_)
MembersItems(ms) == IF ms = <<>> THEN <<>> ELSE MemberItems(Head(ms)) \o MembersItems(Tail(ms))

WrapBefore(f) ==
  IF f.wrap = "template"
  THEN <<K("TK_TEMPLATE"), K("TK_LESS"), K("TK_CLASS"), Id(<<"T">>), K("TK_GREATER")>>
  ELSE IF f.wrap = "namespace" THEN <<K("TK_NAMESPACE"), Id(<<"n">>), K("TK_LCURL")>>
  ELSE <<>>

FileItems(f) ==
  IF f.wrap = "nested" THEN NestedItems(f)
  ELSE WrapBefore(f) \o <<K(f.key), Id(ClassName), K("TK_LCURL")>> \o MembersItems(f.members)
         \o <<K("TK_RCURL"), K("TK_SEMICOLON")>>
         \o (IF f.wrap = "namespace" THEN <<K("TK_RCURL")>> ELSE <<>>)

\* line_ of the token that names member k of the file
NameLine(f, k) ==
  Len(WrapBefore(f)) + 3 + Len(MembersItems(SubSeq(f.members, 1, k - 1)))
    + Len(MarkerItems(f.members[k])) + 1

InitConstructors ==
  /\ IdleTokenizer
  /\ IdleRun
  /\ decls \in Files
  /\ tokens = Lex(FileItems(decls))
  /\ impl \in {"flint", "cxx"}
  /\ call = NoNav
  /\ pos = 0
  /\ errors = <<>>
  /\ cstate = "checkConstructors"
  /\ nestedClasses = <<>>
  /\ IdleScopes
  /\ IdleBlacklist

UnchangedButConstructors == UNCHANGED <<tokVars, tokens, impl, call, decls, scopeVars, blacklistVars, runVars>>

\* flint iterateClasses: the condition of its loop
InIterateClasses ==
  /\ cstate = "checkConstructors"
  /\ impl = "flint"
  /\ pos < Len(tokens) - 1

\* flint iterateClasses: template< is skipped with skipTemplateSpec
IterateTemplate ==
  /\ InIterateClasses
  /\ atSequence(tokens, pos, <<"TK_TEMPLATE", "TK_LESS">>)
  /\ pos' = skipTemplateSpec(tokens, pos + 1).pos + 1
  /\ UNCHANGED <<errors, cstate, nestedClasses>>
  /\ UnchangedButConstructors

\* flint iterateClasses: the callback runs on class, struct or union
IterateClass ==
  /\ InIterateClasses
  /\ ~atSequence(tokens, pos, <<"TK_TEMPLATE", "TK_LESS">>)
  /\ TypeAt(tokens, pos) \in {"TK_CLASS", "TK_STRUCT", "TK_UNION"}
  /\ errors' = constructorsCallback(tokens, pos, errors)
  /\ pos' = pos + 1
  /\ UNCHANGED <<cstate, nestedClasses>>
  /\ UnchangedButConstructors

IterateOther ==
  /\ InIterateClasses
  /\ ~atSequence(tokens, pos, <<"TK_TEMPLATE", "TK_LESS">>)
  /\ TypeAt(tokens, pos) \notin {"TK_CLASS", "TK_STRUCT", "TK_UNION"}
  /\ pos' = pos + 1
  /\ UNCHANGED <<errors, cstate, nestedClasses>>
  /\ UnchangedButConstructors

IterateReturn ==
  /\ cstate = "checkConstructors"
  /\ impl = "flint"
  /\ ~(pos < Len(tokens) - 1)
  /\ cstate' = "done"
  /\ UNCHANGED <<pos, errors, nestedClasses>>
  /\ UnchangedButConstructors

\* cxx checkConstructors: the condition of its loop
InCxxConstructors ==
  /\ cstate = "checkConstructors"
  /\ impl = "cxx"
  /\ pos < Len(tokens)

\* an iteration that reports nothing
CxxConstructorsContinue ==
  /\ InCxxConstructors
  /\ LET b == cxx_constructorsBody(tokens, pos, nestedClasses) IN
       /\ b.k = "continue"
       /\ b.lint = <<>>
       /\ pos' = b.it + 1
       /\ nestedClasses' = b.stack
  /\ UNCHANGED <<errors, cstate>>
  /\ UnchangedButConstructors

\* an iteration on a constructor that is reported
CxxConstructorsLint ==
  /\ InCxxConstructors
  /\ LET b == cxx_constructorsBody(tokens, pos, nestedClasses) IN
       /\ b.k = "continue"
       /\ b.lint # <<>>
       /\ errors' = errors \o b.lint
       /\ pos' = b.it + 1
       /\ nestedClasses' = b.stack
  /\ UNCHANGED cstate
  /\ UnchangedButConstructors

\* return result on a closing brace that closes nothing or on arguments that
\* cannot be split
CxxConstructorsParseFail ==
  /\ InCxxConstructors
  /\ cxx_constructorsBody(tokens, pos, nestedClasses).k = "return"
  /\ cstate' = "done"
  /\ UNCHANGED <<pos, errors, nestedClasses>>
  /\ UnchangedButConstructors

CxxConstructorsReturn ==
  /\ cstate = "checkConstructors"
  /\ impl = "cxx"
  /\ ~(pos < Len(tokens))
  /\ cstate' = "done"
  /\ UNCHANGED <<pos, errors, nestedClasses>>
  /\ UnchangedButConstructors

NextConstructors ==
  \/ IterateTemplate
  \/ IterateClass
  \/ IterateOther
  \/ IterateReturn
  \/ CxxConstructorsContinue
  \/ CxxConstructorsLint
  \/ CxxConstructorsParseFail
  \/ CxxConstructorsReturn

SpecConstructors == InitConstructors /\ [][NextConstructors]_vars

\* the diagnostics reported on the line of member k
LintsOn(k) == Cardinality({i \in 1..Len(errors) : errors[i].line = NameLine(decls, k)})

\* C10: a constructor C(params) declared in the body of class or struct C, without
\* explicit and without the implicit comment, whose first parameter is neither of
\* type C nor a std::initializer_list, gets exactly one Error when it has one
\* parameter or a second parameter with a default value, and none when it has no
\* parameter, is C(void), or has a second parameter without default value.
C10_ImplicitConversionRule ==
  cstate = "done" =>
    \A k \in 1..Len(decls.members) :
      LET m == decls.members[k] IN
      (/\ m.kind = "ctor"
       /\ m.marker = "none"
       /\ (m.params # <<>> => ~m.params[1].ofClass /\ ~m.params[1].initList))
      => LintsOn(k) = IF \/ Len(m.params) = 1
                         \/ Len(m.params) >= 2 /\ m.params[2].default
                      THEN 1 ELSE 0

\* the first parameter is C & without const, or const C &&
WrongCopyOrMove(p) ==
  \/ p.items[1].type_ = "TK_IDENTIFIER" /\ p.items[2].type_ = "TK_AMPERSAND"
  \/ /\ p.items[1].type_ = "TK_CONST"
     /\ p.items[3].type_ = "TK_LOGICAL_AND"

\* the titles of the type conversion diagnostic
ConversionTitles == {"Single - argument constructor", "Single-argument constructor"}

\* C11: a constructor of class C whose first parameter has type C, after an
\* optional const, and is no pointer gets exactly one Error when the parameter is
\* C & without const or const C &&, none for const C &, C && and C by value, and
\* is never reported as a type conversion constructor.
C11_CopyMoveRule ==
  cstate = "done" =>
    \A k \in 1..Len(decls.members) :
      LET m == decls.members[k] IN
      (m.kind = "ctor" /\ m.marker = "none" /\ m.params # <<>> /\ m.params[1].ofClass)
      => /\ LintsOn(k) = IF WrongCopyOrMove(m.params[1]) THEN 1 ELSE 0
         /\ \A i \in 1..Len(errors) :
              errors[i].line = NameLine(decls, k) => errors[i].title[1] \notin ConversionTitles

---------------------------------------------------------------------------
(* checkVirtualDestructors (src/cxx/Checks.cpp) on a file that is not a C   *)
(* source, one action per iteration of its loop over the tokens.            *)

\* ClassParseState(n, a, t); of the token the line is kept
ClassParseState(n, a, t) ==
  [name_ |-> n, access_ |-> a, token_ |-> t.line_, has_virt_function_ |-> FALSE,
   ignore_ |-> FALSE]

\* ClassParseState(): only ignore_ is set. The other members are never read
\* before they are written but for access_, whose test can only set ignore_
\* again; "indeterminate" stands for their value.
IgnoredClassParseState ==
  [name_ |-> <<>>, access_ |-> "indeterminate", token_ |-> 0,
   has_virt_function_ |-> "indeterminate", ignore_ |-> TRUE]

\* the scan behind a colon of the class head, to the opening brace or TK_EOF
RECURSIVE cxx_toCurl(_, _)
cxx_toCurl(toks, p) ==
  IF TypeAt(toks, p) \in {"TK_EOF", "TK_LCURL"} THEN p ELSE cxx_toCurl(toks, p + 1)

\* the scan of a class head from its name on; tok is the class or struct token
RECURSIVE cxx_classHead(_, _, _, _, _, _)
cxx_classHead(toks, p, classCandidate, access, tok, stack) ==
  IF TypeAt(toks, p) = "TK_EOF" THEN [it |-> p, stack |-> stack]
  ELSE IF TypeAt(toks, p) = "TK_COLON"
    THEN [it |-> cxx_toCurl(toks, p), stack |-> Append(stack, IgnoredClassParseState)]
  ELSE IF TypeAt(toks, p) = "TK_IDENTIFIER"
    THEN cxx_classHead(toks, p + 1, ValueAt(toks, p), access, tok, stack)
  ELSE IF TypeAt(toks, p) = "TK_LCURL"
    THEN [it |-> p, stack |-> Append(stack, ClassParseState(classCandidate, access, tok))]
  ELSE cxx_classHead(toks, p + 1, classCandidate, access, tok, stack)

\* the stack with its top replaced
WithTop(stack, c) == [stack EXCEPT ![Len(stack)] = c]

\* the body of the loop of checkVirtualDestructors with the iterator on p; it in
\* the result is the iterator as the body leaves it, before the ++it of the loop
cxx_virtualDestructorsBody(toks, p, stack) ==
  LET ty == TypeAt(toks, p)
      c  == stack[Len(stack)]
  IN
  IF cxx_atSequence(toks, p, <<"TK_TEMPLATE", "TK_LESS">>) = "true"
    THEN Continue(cxx_skipTemplateSpec(toks, p + 1).pos, stack, <<>>)
  ELSE IF ty = "TK_NAMESPACE"
    THEN LET b == cxx_toBlock(toks, p + 1) IN
         Continue(b, IF TypeAt(toks, b) = "TK_LCURL" THEN Append(stack, IgnoredClassParseState)
                     ELSE stack, <<>>)
  ELSE IF ty \in {"TK_CLASS", "TK_STRUCT"}
    THEN (IF TypeAt(toks, p + 1) = "TK_LCURL"
          THEN Continue(p + 1, Append(stack, IgnoredClassParseState), <<>>)
          ELSE IF TypeAt(toks, p + 1) = "TK_IDENTIFIER"
          THEN LET h == cxx_classHead(toks, p + 1, ValueAt(toks, p + 1),
                                      IF ty = "TK_CLASS" THEN "PRIVATE" ELSE "PUBLIC",
                                      toks[p + 1], stack)
               IN  Continue(h.it, h.stack, <<>>)
          ELSE Continue(p + 1, stack, <<>>))
  ELSE IF ty = "TK_LCURL" THEN Continue(cxx_skipBlock(toks, p), stack, <<>>)
  ELSE IF stack = <<>> THEN Continue(p, stack, <<>>)
  \* the test for an empty stack in this branch cannot succeed behind the one above
  ELSE IF ty = "TK_RCURL"
    THEN Continue(p, SubSeq(stack, 1, Len(stack) - 1),
                  IF ~c.ignore_ /\ c.has_virt_function_ = TRUE
                  THEN <<ErrorObject("WARNING", c.token_,
                           <<"Base class", c.name_,
                             "has virtual functions but a public non-virtual destructor.">>, "")>>
                  ELSE <<>>)
  ELSE IF ty = "TK_VIRTUAL"
    THEN (IF TypeAt(toks, p + 1) = "TK_TILDE"
          THEN Continue(cxx_skipFunctionDeclaration(toks, p),
                        WithTop(stack, [c EXCEPT !.ignore_ = TRUE]), <<>>)
          ELSE Continue(cxx_skipFunctionDeclaration(toks, p),
                        WithTop(stack, [c EXCEPT !.has_virt_function_ = TRUE]), <<>>))
  ELSE IF cxx_atSequence(toks, p, <<"TK_TILDE", "TK_IDENTIFIER">>) = "true"
    THEN Continue(cxx_skipFunctionDeclaration(toks, p),
                  IF c.access_ # "PUBLIC" THEN WithTop(stack, [c EXCEPT !.ignore_ = TRUE])
                  ELSE stack, <<>>)
  ELSE IF ty = "TK_PUBLIC" THEN Continue(p, WithTop(stack, [c EXCEPT !.access_ = "PUBLIC"]), <<>>)
  ELSE IF ty = "TK_PROTECTED"
    THEN Continue(p, WithTop(stack, [c EXCEPT !.access_ = "PROTECTED"]), <<>>)
  ELSE IF ty = "TK_PRIVATE"
    THEN Continue(p, WithTop(stack, [c EXCEPT !.access_ = "PRIVATE"]), <<>>)
  ELSE Continue(p, stack, <<>>)

(* The files given to checkVirtualDestructors: one class or struct C, with  *)
(* or without a base, whose body is a sequence of member declarations, and  *)
(* possibly the forward declaration of another class before it.             *)

MaxVMembers == 3

\* the tokens of a member declaration of class C
VMemberItems(m) ==
  CASE m = "virt"      -> <<K("TK_VIRTUAL"), K("TK_VOID"), Id(<<"f">>), K("TK_LPAREN"),
                            K("TK_RPAREN"), K("TK_SEMICOLON")>>
    [] m = "virtBody"  -> <<K("TK_VIRTUAL"), K("TK_VOID"), Id(<<"f">>), K("TK_LPAREN"),
                            K("TK_RPAREN"), K("TK_LCURL"), K("TK_RCURL")>>
    [] m = "meth"      -> <<K("TK_VOID"), Id(<<"g">>), K("TK_LPAREN"), K("TK_RPAREN"),
                            K("TK_LCURL"), K("TK_RCURL")>>
    [] m = "dtor"      -> <<K("TK_TILDE"), Id(ClassName), K("TK_LPAREN"), K("TK_RPAREN"),
                            K("TK_SEMICOLON")>>
    [] m = "vdtor"     -> <<K("TK_VIRTUAL"), K("TK_TILDE"), Id(ClassName), K("TK_LPAREN"),
                            K("TK_RPAREN"), K("TK_SEMICOLON")>>
    [] m = "public"    -> <<K("TK_PUBLIC"), K("TK_COLON")>>
    [] m = "protected" -> <<K("TK_PROTECTED"), K("TK_COLON")>>
    [] m = "private"   -> <<K("TK_PRIVATE"), K("TK_COLON")>>
    [] m = "nested"    -> <<K("TK_CLASS"), Id(<<"D">>), K("TK_LCURL"), K("TK_VIRTUAL"),
                            K("TK_VOID"), Id(<<"h">>), K("TK_LPAREN"), K("TK_RPAREN"),
                            K("TK_SEMICOLON"), K("TK_RCURL"), K("TK_SEMICOLON")>>
    [] m = "friend"    -> <<K("TK_FRIEND"), K("TK_CLASS"), Id(<<"F">>), K("TK_SEMICOLON")>>

VMembers == {"virt", "dtor", "vdtor", "public", "protected", "nested"}

\* the classes of src/cxx/Test.cpp that the short bodies do not reach, and the
\* declarations of another class inside and before the class
VSamples ==
  { [key |-> "TK_CLASS", base |-> FALSE, pre |-> FALSE,
     members |-> <<"public", "private", "virt", "public", "dtor">>],
    [key |-> "TK_CLASS", base |-> FALSE, pre |-> FALSE,
     members |-> <<"public", "virtBody", "meth", "private", "dtor">>],
    [key |-> "TK_STRUCT", base |-> FALSE, pre |-> FALSE,
     members |-> <<"meth", "virtBody", "nested", "nested">>],
    [key |-> "TK_CLASS", base |-> FALSE, pre |-> FALSE,
     members |-> <<"friend", "virt", "public", "dtor">>],
    [key |-> "TK_STRUCT", base |-> FALSE, pre |-> FALSE,
     members |-> <<"virt", "friend", "dtor">>],
    [key |-> "TK_STRUCT", base |-> TRUE, pre |-> TRUE,
     members |-> <<"virt", "dtor">>] }

VFiles ==
  [key : {"TK_CLASS", "TK_STRUCT"}, base : BOOLEAN, pre : {FALSE},
   members : SeqsUpTo(VMembers, MaxVMembers)]
    \cup [key : {"TK_STRUCT"}, base : {FALSE}, pre : {TRUE},
          members : SeqsUpTo(VMembers, MaxVMembers)]
    \cup VSamples

RECURSIVE VMembersItems(_)
VMembersItems(ms) ==
  IF ms = <<>> THEN <<>> ELSE VMemberItems(Head(ms)) \o VMembersItems(Tail(ms))

\* class F; before the class
VPreItems(f) ==
  IF f.pre THEN <<K("TK_CLASS"), Id(<<"F">>), K("TK_SEMICOLON")>> ELSE <<>>

\* the class head up to and with the opening brace
VHeadItems(f) ==
  <<K(f.key), Id(ClassName)>>
    \o (IF f.base THEN <<K("TK_COLON"), K("TK_PUBLIC"), Id(<<"B">>)>> ELSE <<>>)
    \o <<K("TK_LCURL")>>

VFileItems(f) ==
  VPreItems(f) \o VHeadItems(f) \o VMembersItems(f.members)
    \o <<K("TK_RCURL"), K("TK_SEMICOLON")>>

InitVirtualDestructors ==
  /\ IdleTokenizer
  /\ IdleRun
  /\ decls \in VFiles
  /\ tokens = Lex(VFileItems(decls))
  /\ impl = "cxx"
  /\ call = NoNav
  /\ pos = 0
  /\ errors = <<>>
  /\ cstate = "checkVirtualDestructors"
  /\ nestedClasses = <<>>
  /\ IdleScopes
  /\ IdleBlacklist

InVirtualDestructors ==
  /\ cstate = "checkVirtualDestructors"
  /\ pos < Len(tokens)

\* an iteration that reports nothing
VirtualDestructorsContinue ==
  /\ InVirtualDestructors
  /\ LET b == cxx_virtualDestructorsBody(tokens, pos, nestedClasses) IN
       /\ b.lint = <<>>
       /\ pos' = b.it + 1
       /\ nestedClasses' = b.stack
  /\ UNCHANGED <<errors, cstate>>
  /\ UnchangedButConstructors

\* an iteration on the closing brace of a class that is warned about
VirtualDestructorsLint ==
  /\ InVirtualDestructors
  /\ LET b == cxx_virtualDestructorsBody(tokens, pos, nestedClasses) IN
       /\ b.lint # <<>>
       /\ errors' = errors \o b.lint
       /\ pos' = b.it + 1
       /\ nestedClasses' = b.stack
  /\ UNCHANGED cstate
  /\ UnchangedButConstructors

\* the end of the token vector
VirtualDestructorsReturn ==
  /\ cstate = "checkVirtualDestructors"
  /\ ~(pos < Len(tokens))
  /\ cstate' = "done"
  /\ UNCHANGED <<pos, errors, nestedClasses>>
  /\ UnchangedButConstructors

NextVirtualDestructors ==
  \/ VirtualDestructorsContinue
  \/ VirtualDestructorsLint
  \/ VirtualDestructorsReturn

SpecVirtualDestructors == InitVirtualDestructors /\ [][NextVirtualDestructors]_vars

\* the access in force at member k of the class: the last label before it, or
\* what the class key gives
RECURSIVE AccessAt(_, _)
AccessAt(f, k) ==
  IF k = 1 THEN (IF f.key = "TK_CLASS" THEN "private" ELSE "public")
  ELSE IF f.members[k - 1] \in {"public", "protected", "private"} THEN f.members[k - 1]
  ELSE AccessAt(f, k - 1)

Declares(f, kinds) == \E k \in 1..Len(f.members) : f.members[k] \in kinds

HiddenDestructor(f) ==
  \E k \in 1..Len(f.members) :
    f.members[k] = "dtor" /\ AccessAt(f, k) \in {"private", "protected"}

\* the class C is one to warn about
BaseWithoutVirtualDestructor(f) ==
  /\ ~f.base
  /\ Declares(f, {"virt", "virtBody"})
  /\ ~Declares(f, {"vdtor"})
  /\ ~HiddenDestructor(f)

\* the token index of the key of class C, and of the nested class at member k
ClassLine(f) == Len(VPreItems(f)) + 1
NestedLine(f, k) ==
  Len(VPreItems(f)) + Len(VHeadItems(f)) + Len(VMembersItems(SubSeq(f.members, 1, k - 1))) + 1

WarningsOn(ln) ==
  Cardinality({i \in 1..Len(errors) : errors[i].line = ln /\ errors[i].type = "WARNING"})

\* C12: when checkVirtualDestructors is done, class C has one warning if it has
\* no base, declares a virtual function, no virtual destructor and no destructor
\* under private or protected access, and none otherwise; every nested class,
\* which declares a virtual function only, has one warning of its own; there is
\* no other diagnostic.
C12_VirtualDestructorRule ==
  cstate = "done" =>
    /\ WarningsOn(ClassLine(decls)) = IF BaseWithoutVirtualDestructor(decls) THEN 1 ELSE 0
    /\ \A k \in 1..Len(decls.members) :
         decls.members[k] = "nested" => WarningsOn(NestedLine(decls, k)) = 1
    /\ \A i \in 1..Len(errors) :
         /\ errors[i].type = "WARNING"
         /\ \/ errors[i].line = ClassLine(decls)
            \/ \E k \in 1..Len(decls.members) :
                 decls.members[k] = "nested" /\ errors[i].line = NestedLine(decls, k)

\* the same on the files that declare no other class by name alone
VirtualDestructorRuleOnDefinitions ==
  (~decls.pre /\ ~Declares(decls, {"friend"})) => C12_VirtualDestructorRule

---------------------------------------------------------------------------
(* checkIfEndifBalance (src/flint/Checks.cpp, src/cxx/Checks.cpp), one      *)
(* action per iteration of its loop and one for what follows the loop.      *)

\* the body of the loop on the token at p with open directives counted so far:
\* the new count, the diagnostic of this iteration, and whether the function
\* returns from inside the loop (the flint version has no return there)
ifEndifBody(toks, p, open, im) ==
  LET tok == toks[p + 1] IN
  IF tok.type_ \in {"TK_IFNDEF", "TK_IFDEF", "TK_POUNDIF"}
    THEN [openIf |-> open + 1, lint |-> <<>>, ret |-> FALSE]
  ELSE IF tok.type_ = "TK_ENDIF"
    THEN (IF open - 1 < 0
          THEN [openIf |-> open - 1,
                lint |-> <<ErrorObject("ERROR", tok.line_, <<"Unmatched #endif.">>, "")>>,
                ret |-> (im = "cxx")]
          ELSE [openIf |-> open - 1, lint |-> <<>>, ret |-> FALSE])
  ELSE IF tok.type_ = "TK_POUNDELSE" /\ open = 0
    THEN [openIf |-> open,
          lint |-> <<ErrorObject("ERROR", tok.line_, <<"Unmatched #else.">>, "")>>,
          ret |-> (im = "cxx")]
  ELSE [openIf |-> open, lint |-> <<>>, ret |-> FALSE]

MaxIfLen == 4

IfKinds == {"TK_POUNDIF", "TK_IFDEF", "TK_IFNDEF", "TK_ENDIF", "TK_POUNDELSE", "TK_IDENTIFIER"}

\* s, s2, s3 and s4 of testCheckIfEndifBalance, directives only
IfSamples ==
  { <<"TK_IFNDEF", "TK_POUNDIF", "TK_IFDEF", "TK_ENDIF", "TK_POUNDIF", "TK_POUNDELSE",
      "TK_ENDIF", "TK_POUNDELSE", "TK_ENDIF", "TK_ENDIF">>,
    <<"TK_IFNDEF", "TK_POUNDIF", "TK_IFDEF", "TK_ENDIF", "TK_POUNDELSE", "TK_ENDIF">>,
    <<"TK_POUNDIF", "TK_IFDEF", "TK_ENDIF", "TK_POUNDELSE", "TK_ENDIF", "TK_ENDIF">>,
    <<"TK_IFNDEF", "TK_ENDIF", "TK_POUNDELSE">> }

IfStreams == { Stream(k) : k \in SeqsUpTo(IfKinds, MaxIfLen) \cup IfSamples }

InitIfEndifBalance ==
  /\ IdleTokenizer
  /\ tokens \in IfStreams
  /\ impl \in {"flint", "cxx"}
  /\ call = NoNav
  /\ pos = 0
  /\ errors = <<>>
  /\ cstate = "checkIfEndifBalance"
  /\ nestedClasses = <<>>
  /\ IdleScopes
  /\ IdleBlacklist
  /\ decls = <<>>
  /\ openIf = 0
  /\ errorFile = <<>>
  /\ errorReport = <<>>
  /\ paths = <<>>
  /\ entry = 0

UnchangedButIfEndif ==
  UNCHANGED <<tokVars, tokens, impl, call, nestedClasses, decls, scopeVars, blacklistVars, errorFile, errorReport,
              paths, entry>>

InIfEndifBalance ==
  /\ cstate = "checkIfEndifBalance"
  /\ pos < Len(tokens)

\* an iteration that reports nothing
IfEndifContinue ==
  /\ InIfEndifBalance
  /\ LET b == ifEndifBody(tokens, pos, openIf, impl) IN
       /\ b.lint = <<>>
       /\ openIf' = b.openIf
  /\ pos' = pos + 1
  /\ UNCHANGED <<errors, cstate>>
  /\ UnchangedButIfEndif

\* an iteration that reports an unmatched #endif or #else
IfEndifLint ==
  /\ InIfEndifBalance
  /\ LET b == ifEndifBody(tokens, pos, openIf, impl) IN
       /\ b.lint # <<>>
       /\ openIf' = b.openIf
       /\ errors' = errors \o b.lint
       /\ IF b.ret THEN cstate' = "done" /\ pos' = pos
          ELSE cstate' = cstate /\ pos' = pos + 1
  /\ UnchangedButIfEndif

\* behind the loop, with directives left open (or closed too often)
IfEndifUnbalanced ==
  /\ cstate = "checkIfEndifBalance"
  /\ ~(pos < Len(tokens))
  /\ openIf # 0
  /\ errors' = Append(errors,
       ErrorObject("ERROR", tokens[Len(tokens)].line_,
                   IF impl = "flint" THEN <<"Unmatched #if/#endif.">>
                   ELSE <<"Unbalanced #if/#endif.">>, ""))
  /\ cstate' = "done"
  /\ UNCHANGED <<pos, openIf>>
  /\ UnchangedButIfEndif

\* behind the loop, nothing open
IfEndifReturn ==
  /\ cstate = "checkIfEndifBalance"
  /\ ~(pos < Len(tokens))
  /\ openIf = 0
  /\ cstate' = "done"
  /\ UNCHANGED <<pos, openIf, errors>>
  /\ UnchangedButIfEndif

NextIfEndifBalance ==
  \/ IfEndifContinue
  \/ IfEndifLint
  \/ IfEndifUnbalanced
  \/ IfEndifReturn

SpecIfEndifBalance == InitIfEndifBalance /\ [][NextIfEndifBalance]_vars

\* the directives open in front of position p: openers less closers before p
OpenBefore(p) ==
  Cardinality({q \in 0..(p - 1) : TypeAt(tokens, q) \in {"TK_IFNDEF", "TK_IFDEF", "TK_POUNDIF"}})
    - Cardinality({q \in 0..(p - 1) : TypeAt(tokens, q) = "TK_ENDIF"})

\* the positions of an #endif or #else with nothing open in front of it
Unmatched ==
  {p \in 0..(Len(tokens) - 1) :
     /\ TypeAt(tokens, p) \in {"TK_ENDIF", "TK_POUNDELSE"}
     /\ OpenBefore(p) <= 0}

FirstUnmatched == CHOOSE p \in Unmatched : \A q \in Unmatched : p <= q

\* C13: when checkIfEndifBalance is done there is no diagnostic if the
\* directives are balanced; otherwise there is exactly one, an Error: on the
\* first #endif or #else that has no open #if in front of it, or, when there is
\* none, on the last token of the stream for the directives left open.
C13_IfEndifBalance ==
  cstate = "done" =>
    IF Unmatched # {}
    THEN /\ Len(errors) = 1
         /\ errors[1].type = "ERROR"
         /\ errors[1].line = tokens[FirstUnmatched + 1].line_
    ELSE IF OpenBefore(Len(tokens)) # 0
    THEN /\ Len(errors) = 1
         /\ errors[1].type = "ERROR"
         /\ errors[1].line = tokens[Len(tokens)].line_
    ELSE errors = <<>>

\* the same for the cxx version alone
IfEndifBalanceCxx == impl = "cxx" => C13_IfEndifBalance

---------------------------------------------------------------------------
(* ErrorFile and ErrorReport (src/flint/ErrorReport.hpp): one ErrorFile     *)
(* that takes diagnostics, and an ErrorReport that takes the files.         *)

\* ErrorBase gives m_errors, m_warnings and m_advice no initial value, and
\* neither the constructor of ErrorFile nor the implicit one of ErrorReport does:
\* a new object holds whatever its storage held. Two of the possible contents.
Uninitialized ==
  { [m_errors |-> 0, m_warnings |-> 0, m_advice |-> 0],
    [m_errors |-> 1, m_warnings |-> 0, m_advice |-> 2] }

\* ErrorFile(path) with the counts c
ErrorFile(path, c) == c @@ [m_objs |-> <<>>, m_path |-> path]

\* ErrorReport errors; with the counts c
ErrorReport(c) == c @@ [m_files |-> <<>>]

getErrors(b) == b.m_errors
getWarnings(b) == b.m_warnings
getAdvice(b) == b.m_advice
getTotal(b) == b.m_advice + b.m_warnings + b.m_errors

\* ErrorFile::addError
addError(f, error) ==
  [m_errors   |-> IF error.type = "ERROR" THEN f.m_errors + 1 ELSE f.m_errors,
   m_warnings |-> IF error.type # "ERROR" /\ error.type = "WARNING"
                  THEN f.m_warnings + 1 ELSE f.m_warnings,
   m_advice   |-> IF error.type = "ADVICE" THEN f.m_advice + 1 ELSE f.m_advice,
   m_objs     |-> Append(f.m_objs, error),
   m_path     |-> f.m_path]

\* ErrorReport::addFile
addFile(r, file) ==
  [m_errors   |-> r.m_errors + getErrors(file),
   m_warnings |-> r.m_warnings + getWarnings(file),
   m_advice   |-> r.m_advice + getAdvice(file),
   m_files    |-> Append(r.m_files, file)]

MaxObjs == 2
MaxFiles == 1

Lint == {"ERROR", "WARNING", "ADVICE"}

InitReport ==
  /\ IdleTokenizer
  /\ tokens = <<>>
  /\ impl = "flint"
  /\ call = NoNav
  /\ pos = 0
  /\ errors = <<>>
  /\ cstate = "report"
  /\ nestedClasses = <<>>
  /\ IdleScopes
  /\ IdleBlacklist
  /\ decls = <<>>
  /\ openIf = 0
  /\ \E c \in Uninitialized : errorFile = ErrorFile(0, c)
  /\ \E c \in Uninitialized : errorReport = ErrorReport(c)
  /\ paths = <<>>
  /\ entry = 0

UnchangedButReport ==
  UNCHANGED <<tokVars, tokens, impl, call, pos, errors, cstate, nestedClasses, decls, scopeVars, blacklistVars, openIf,
              paths, entry>>

\* errorFile.addError(ErrorObject(type, 1, "t", ""))
AddError ==
  /\ cstate = "report"
  /\ Len(errorFile.m_objs) < MaxObjs
  /\ \E type \in Lint : errorFile' = addError(errorFile, ErrorObject(type, 1, <<"t">>, ""))
  /\ UNCHANGED errorReport
  /\ UnchangedButReport

\* errors.addFile(errorFile), and the ErrorFile of the next file
AddFile ==
  /\ cstate = "report"
  /\ Len(errorReport.m_files) < MaxFiles
  /\ errorReport' = addFile(errorReport, errorFile)
  /\ \E c \in Uninitialized : errorFile' = ErrorFile(Len(errorReport.m_files) + 1, c)
  /\ UnchangedButReport

NextReport ==
  \/ AddError
  \/ AddFile

SpecReport == InitReport /\ [][NextReport]_vars

\* the stored diagnostics of one severity
Stored(f, type) == Cardinality({i \in 1..Len(f.m_objs) : f.m_objs[i].type = type})

RECURSIVE Sum(_)
Sum(numbers) == IF numbers = <<>> THEN 0 ELSE Head(numbers) + Sum(Tail(numbers))

SumOver(files, count(_)) == Sum([i \in 1..Len(files) |-> count(files[i])])

\* C14: the counts of the ErrorFile are the numbers of its stored diagnostics
\* of each severity and its total is their number, and each count of the
\* ErrorReport is the sum of that count over the files added to it.
C14_CountsMatchContents ==
  cstate = "report" =>
    /\ getErrors(errorFile) = Stored(errorFile, "ERROR")
    /\ getWarnings(errorFile) = Stored(errorFile, "WARNING")
    /\ getAdvice(errorFile) = Stored(errorFile, "ADVICE")
    /\ getTotal(errorFile) = Len(errorFile.m_objs)
    /\ getErrors(errorReport) = SumOver(errorReport.m_files, getErrors)
    /\ getWarnings(errorReport) = SumOver(errorReport.m_files, getWarnings)
    /\ getAdvice(errorReport) = SumOver(errorReport.m_files, getAdvice)

\* every diagnostic stored, in the order of the calls: those of the files added,
\* then those of the file in use
RECURSIVE ObjsOf(_)
ObjsOf(files) == IF files = <<>> THEN <<>> ELSE Head(files).m_objs \o ObjsOf(Tail(files))

AllObjs == ObjsOf(errorReport.m_files) \o errorFile.m_objs

\* no call removes or changes a stored diagnostic, and addError raises the
\* total of the file by one
ReportKeepsDiagnostics ==
  [][/\ Len(AllObjs) <= Len(AllObjs')
     /\ SubSeq(AllObjs', 1, Len(AllObjs)) = AllObjs
     /\ Len(errorFile'.m_objs) = Len(errorFile.m_objs) + 1
          => getTotal(errorFile') = getTotal(errorFile) + 1]_vars

---------------------------------------------------------------------------
(* main and checkEntry (src/flint/Main.cpp): the paths are taken one after  *)
(* the other; each file is tokenized, checked, and its ErrorFile added to   *)
(* the report, all inside one try block. Of the checks of checkEntry the    *)
(* model runs checkIfEndifBalance and checkCatchByReference; on the files   *)
(* below the others report nothing. Options are the defaults (no CMODE).    *)

\* the diagnostics of a whole call of checkIfEndifBalance
RECURSIVE runIfEndifBalance(_, _, _, _, _)
runIfEndifBalance(toks, p, open, im, acc) ==
  IF ~(p < Len(toks))
  THEN (IF open # 0
        THEN Append(acc, ErrorObject("ERROR", toks[Len(toks)].line_,
                                     IF im = "flint" THEN <<"Unmatched #if/#endif.">>
                                     ELSE <<"Unbalanced #if/#endif.">>, ""))
        ELSE acc)
  ELSE LET b == ifEndifBody(toks, p, open, im) IN
       IF b.ret THEN acc \o b.lint
       ELSE runIfEndifBalance(toks, p + 1, b.openIf, im, acc \o b.lint)

\* a whole call of flint checkCatchByReference: how it ends, and the
\* diagnostics it has made by then
RECURSIVE runCatchByReference(_, _, _)
runCatchByReference(toks, p, acc) ==
  IF ~(p < Len(toks)) THEN [k |-> "return", errors |-> acc]
  ELSE IF TypeAt(toks, p) # "TK_CATCH" THEN runCatchByReference(toks, p + 1, acc)
  ELSE LET c == catchClause(toks, p, "flint") IN
       IF c.k = "continue" THEN runCatchByReference(toks, p + 1, acc)
       ELSE IF c.k = "lint" THEN runCatchByReference(toks, p + 1, Append(acc, c.error))
       ELSE [k |-> "throw", unclosed |-> c.unclosed, errors |-> acc]

\* errors.addError for each diagnostic in turn
RECURSIVE addErrors(_, _)
addErrors(f, es) == IF es = <<>> THEN f ELSE addErrors(addError(f, Head(es)), Tail(es))

MaxPaths == 2

\* a path that checkEntry leaves at once (no access, unknown category, unreadable)
NoSource == [source |-> FALSE]

\* a source file: what tokenize does with its text ("tokens", "throw" for an
\* open literal or comment, "crash" for a read behind the text), and its tokens
Source(lex, kinds) == [source |-> TRUE, lex |-> lex, tokens |-> Stream(kinds)]

RunFiles ==
  { NoSource,
    Source("throw", <<>>),
    Source("crash", <<>>),
    Source("tokens", <<"TK_IDENTIFIER">>),
    Source("tokens", <<"TK_POUNDELSE">>),
    Source("tokens", <<"TK_CATCH", "TK_LCURL", "TK_RCURL">>),
    Source("tokens", <<"TK_POUNDELSE", "TK_CATCH", "TK_IDENTIFIER">>),
    Source("tokens", <<"TK_CATCH", "TK_LPAREN", "TK_IDENTIFIER", "TK_IDENTIFIER", "TK_RPAREN">>),
    Source("tokens", <<"TK_POUNDELSE", "TK_CATCH", "TK_LPAREN", "TK_IDENTIFIER">>) }

InitRun ==
  /\ IdleTokenizer
  /\ paths \in SeqsUpTo(RunFiles, MaxPaths)
  /\ entry = 0
  /\ \E c \in Uninitialized : errorReport = ErrorReport(c)
  /\ errorFile = <<>>
  /\ tokens = <<>>
  /\ impl = "flint"
  /\ call = NoNav
  /\ pos = 0
  /\ errors = <<>>
  /\ cstate = "main"
  /\ nestedClasses = <<>>
  /\ IdleScopes
  /\ IdleBlacklist
  /\ decls = <<>>
  /\ openIf = 0

UnchangedButRun ==
  UNCHANGED <<tokVars, impl, call, pos, errors, nestedClasses, decls, scopeVars, blacklistVars, openIf, paths>>

\* the catch block of checkEntry: the ErrorFile and the tokens are gone, main
\* goes on with the next path
ExceptionCaught ==
  /\ errorFile' = <<>>
  /\ tokens' = <<>>
  /\ entry' = entry + 1
  /\ cstate' = "main"
  /\ UNCHANGED errorReport

\* checkEntry returns before the try block
EntrySkip ==
  /\ cstate = "main"
  /\ entry < Len(paths)
  /\ ~paths[entry + 1].source
  /\ entry' = entry + 1
  /\ UNCHANGED <<cstate, tokens, errorFile, errorReport>>
  /\ UnchangedButRun

\* checkEntry up to the construction of errorFile
EntryStart ==
  /\ cstate = "main"
  /\ entry < Len(paths)
  /\ paths[entry + 1].source
  /\ \E c \in Uninitialized : errorFile' = ErrorFile(entry + 1, c)
  /\ cstate' = "tokenize"
  /\ UNCHANGED <<entry, tokens, errorReport>>
  /\ UnchangedButRun

\* tokenize returns
EntryTokenize ==
  /\ cstate = "tokenize"
  /\ paths[entry + 1].lex = "tokens"
  /\ tokens' = paths[entry + 1].tokens
  /\ cstate' = "checkIfEndifBalance"
  /\ UNCHANGED <<entry, errorFile, errorReport>>
  /\ UnchangedButRun

\* tokenize throws and nothing catches the exception
EntryTokenizeThrow_uncaught ==
  /\ cstate = "tokenize"
  /\ paths[entry + 1].lex = "throw"
  /\ cstate' = "exit"
  /\ UNCHANGED <<entry, tokens, errorFile, errorReport>>
  /\ UnchangedButRun

\* tokenize throws
EntryTokenizeThrow ==
  /\ cstate = "tokenize"
  /\ paths[entry + 1].lex = "throw"
  /\ ExceptionCaught
  /\ UnchangedButRun

\* tokenize reads outside the text and the process ends
EntryTokenizeCrash ==
  /\ cstate = "tokenize"
  /\ paths[entry + 1].lex = "crash"
  /\ cstate' = "crash"
  /\ UNCHANGED <<entry, tokens, errorFile, errorReport>>
  /\ UnchangedButRun

\* checkIfEndifBalance(errorFile, path, tokens)
EntryIfEndifBalance ==
  /\ cstate = "checkIfEndifBalance"
  /\ errorFile' = addErrors(errorFile, runIfEndifBalance(tokens, 0, 0, "flint", <<>>))
  /\ cstate' = "checkCatchByReference"
  /\ UNCHANGED <<entry, tokens, errorReport>>
  /\ UnchangedButRun

\* checkCatchByReference(errorFile, path, tokens) returns
EntryCatchByReference ==
  /\ cstate = "checkCatchByReference"
  /\ LET r == runCatchByReference(tokens, 0, <<>>) IN
       /\ r.k = "return"
       /\ errorFile' = addErrors(errorFile, r.errors)
  /\ cstate' = "addFile"
  /\ UNCHANGED <<entry, tokens, errorReport>>
  /\ UnchangedButRun

\* checkCatchByReference throws
EntryCatchThrow ==
  /\ cstate = "checkCatchByReference"
  /\ runCatchByReference(tokens, 0, <<>>).k = "throw"
  /\ ExceptionCaught
  /\ UnchangedButRun

\* checkCatchByReference builds its message from a token behind the vector
\* and the process ends
EntryCatchCrash ==
  /\ cstate = "checkCatchByReference"
  /\ LET r == runCatchByReference(tokens, 0, <<>>) IN r.k = "throw" /\ r.unclosed
  /\ cstate' = "crash"
  /\ UNCHANGED <<entry, tokens, errorFile, errorReport>>
  /\ UnchangedButRun

\* errors.addFile(move(errorFile)) and the return of checkEntry
EntryAddFile ==
  /\ cstate = "addFile"
  /\ errorReport' = addFile(errorReport, errorFile)
  /\ errorFile' = <<>>
  /\ tokens' = <<>>
  /\ entry' = entry + 1
  /\ cstate' = "main"
  /\ UnchangedButRun

\* main behind its loop
MainReturn ==
  /\ cstate = "main"
  /\ ~(entry < Len(paths))
  /\ cstate' = "exit"
  /\ UNCHANGED <<entry, tokens, errorFile, errorReport>>
  /\ UnchangedButRun

NextRun ==
  \/ EntrySkip
  \/ EntryStart
  \/ EntryTokenize
  \/ EntryTokenizeThrow
  \/ EntryTokenizeCrash
  \/ EntryIfEndifBalance
  \/ EntryCatchByReference
  \/ EntryCatchThrow
  \/ EntryCatchCrash
  \/ EntryAddFile
  \/ MainReturn

SpecRun == InitRun /\ [][NextRun]_vars

\* checkCatchByReference throws on the file
CatchThrows(f) ==
  f.source /\ f.lex = "tokens" /\ runCatchByReference(f.tokens, 0, <<>>).k = "throw"

\* the files of the report that were made for path i (1-based)
FilesOf(i) == {j \in 1..Len(errorReport.m_files) : errorReport.m_files[j].m_path = i}

\* s is the beginning of t
IsPrefix(s, t) == Len(s) <= Len(t) /\ SubSeq(t, 1, Len(s)) = s

\* C15: when main is through, every file on which checkCatchByReference threw
\* is in the report with the diagnostics the checks before it had made (here
\* those of checkIfEndifBalance), and every path has been taken.
C15_OnlyTheCheckIsLost ==
  cstate = "exit" =>
    /\ entry = Len(paths)
    /\ \A i \in 1..Len(paths) :
         CatchThrows(paths[i]) =>
           \E j \in FilesOf(i) :
             IsPrefix(runIfEndifBalance(paths[i].tokens, 0, 0, "flint", <<>>),
                      errorReport.m_files[j].m_objs)

\* tokenize throws on the source file whose turn it is
TokenizeFails ==
  /\ cstate = "tokenize"
  /\ paths[entry + 1].lex = "throw"

\* C16: the step in which tokenize fails on a file leaves the counts and the
\* files of the report as they were and takes main to the next path; when main
\* is through, every path has been taken, no file of the report is for a path
\* whose tokenize failed, and every source file that was tokenized and checked
\* without exception is in the report.
C16_FailedFileContributesNothing ==
  /\ [][TokenizeFails =>
          (errorReport' = errorReport /\ cstate' = "main" /\ entry' = entry + 1)]_vars
  /\ [](cstate = "exit" =>
          /\ entry = Len(paths)
          /\ \A i \in 1..Len(paths) :
               /\ (paths[i].source /\ paths[i].lex = "throw") => FilesOf(i) = {}
               /\ (paths[i].source /\ paths[i].lex = "tokens" /\ ~CatchThrows(paths[i]))
                    => Cardinality(FilesOf(i)) = 1)

\* main is through a run whose first file failed in tokenize and whose second
\* file is in the report
C16_Witness ==
  /\ cstate = "exit"
  /\ Len(paths) = 2
  /\ paths[1].source /\ paths[1].lex = "throw"
  /\ FilesOf(2) # {}

---------------------------------------------------------------------------
(* Claims about the lines and the number of tokens (SpecTokenize) *)

\* the newline characters of a text
NewLines(text) == Cardinality({i \in 1..Len(text) : text[i] = LF})

\* C17: when tokenize has returned, the line of the TK_EOF token, which is the
\* last token, and the value returned are 1 plus the number of newline
\* characters of the input.
C17_EofLineCountsNewlines ==
  tstate = "done" =>
    /\ output # <<>>
    /\ output[Len(output)].type_ = "TK_EOF"
    /\ output[Len(output)].line_ = 1 + NewLines(input)
    /\ line = 1 + NewLines(input)

\* the same for the inputs without a carriage return, a NUL, a backslash, a
\* quote or a directive
EofLineOfPlainText ==
  (\A i \in 1..Len(input) : input[i] \notin {CR, NUL, BSL, DQ, SQ, "<", "#"})
    => C17_EofLineCountsNewlines

\* C18: tokenize of HelloProgram gives 18 tokens, the last of which is the
\* only TK_EOF.
C18_HelloProgramTokens ==
  (tstate = "done" /\ input = HelloProgram) =>
    /\ Len(output) = 18
    /\ \A i \in 1..Len(output) : (output[i].type_ = "TK_EOF") <=> (i = Len(output))

\* what the flint tokenizer gives: 14 tokens, <stdio.h> being one of them
HelloProgramTokensFlint ==
  (tstate = "done" /\ input = HelloProgram) =>
    /\ Len(output) = 14
    /\ output[2].type_ = "TK_STRING_LITERAL"
    /\ \A i \in 1..Len(output) : (output[i].type_ = "TK_EOF") <=> (i = Len(output))

---------------------------------------------------------------------------
(* checkMemset (src/flint/Checks.cpp, src/cxx/Checks.cpp), one action per   *)
(* iteration of its loop.                                                   *)

memset == <<"m", "e", "m", "s", "e", "t">>

sizeof == <<"s", "i", "z", "e", "o", "f">>

\* std::swap(args[1], args[2])
swap12(args) == [args EXCEPT ![2] = args[3], ![3] = args[2]]

\* the body of the loop of checkMemset on the token at p: k is "continue" or
\* "return", it the position the body leaves, lint the diagnostic it makes
memsetBody(toks, p, im) ==
  LET tok == toks[p + 1]
      funcSequence == <<"TK_IDENTIFIER", "TK_LPAREN">>
      isCall == IF im = "flint" THEN atSequence(toks, p, funcSequence)
                ELSE cxx_atSequence(toks, p, funcSequence) = "true"
  IN
  IF ~isCall \/ tok.value_ # memset THEN [k |-> "continue", it |-> p, lint |-> <<>>]
  ELSE LET r == IF im = "flint" THEN getFunctionNameAndArguments(toks, p, <<>>)
                ELSE cxx_getFunctionNameAndArguments(toks, p, <<>>)
           args == r.args
       IN  IF ~r.ret THEN [k |-> "return", it |-> r.pos, lint |-> <<>>]
           ELSE IF Len(args) = 3
                   /\ args[3].last - args[3].first = 1
                   /\ \/ ValueAt(toks, args[3].first) = <<"0">>
                      \/ /\ ValueAt(toks, args[3].first) = <<"1">>
                         /\ ValueAt(toks, args[2].first) = sizeof
           THEN [k |-> "continue", it |-> r.pos,
                 lint |-> <<ErrorObject("ERROR", tok.line_,
                              <<"Did you mean", formatFunction(toks, r.func, swap12(args)), "?">>,
                              "")>>]
           ELSE [k |-> "continue", it |-> r.pos, lint |-> <<>>]

MaxCalls == 3

Foo == Id(<<"f", "o", "o">>)

SizeofFoo == <<K("TK_SIZEOF"), K("TK_LPAREN"), Foo, K("TK_RPAREN")>>

\* the statements of testMemset
CallItems(c) ==
  CASE c = "good"  -> \* memset(foo, 0, sizeof(foo));
         <<Id(memset), K("TK_LPAREN"), Foo, K("TK_COMMA"), Num(<<"0">>), K("TK_COMMA")>>
           \o SizeofFoo \o <<K("TK_RPAREN"), K("TK_SEMICOLON")>>
    [] c = "bad0"  -> \* memset(foo, 12, 0);
         <<Id(memset), K("TK_LPAREN"), Foo, K("TK_COMMA"), Num(<<"1", "2">>), K("TK_COMMA"),
           Num(<<"0">>), K("TK_RPAREN"), K("TK_SEMICOLON")>>
    [] c = "bad1"  -> \* memset(foo, sizeof(foo), 1);
         <<Id(memset), K("TK_LPAREN"), Foo, K("TK_COMMA")>> \o SizeofFoo
           \o <<K("TK_COMMA"), Num(<<"1">>), K("TK_RPAREN"), K("TK_SEMICOLON")>>
    [] c = "funky" -> \* memset(foo, a < b ? 0 : 1, sizeof(foo));
         <<Id(memset), K("TK_LPAREN"), Foo, K("TK_COMMA"), Id(<<"a">>), K("TK_LESS"),
           Id(<<"b">>), K("TK_QUESTION"), Num(<<"0">>), K("TK_COLON"), Num(<<"1">>),
           K("TK_COMMA")>> \o SizeofFoo \o <<K("TK_RPAREN"), K("TK_SEMICOLON")>>
    [] c = "other" -> \* foo(foo, 12, 0);
         <<Foo, K("TK_LPAREN"), Foo, K("TK_COMMA"), Num(<<"1", "2">>), K("TK_COMMA"),
           Num(<<"0">>), K("TK_RPAREN"), K("TK_SEMICOLON")>>
    [] c = "templ" -> \* memset(foo<a, b>(1), 0, sizeof(foo));
         <<Id(memset), K("TK_LPAREN"), Foo, K("TK_LESS"), Id(<<"a">>), K("TK_COMMA"),
           Id(<<"b">>), K("TK_GREATER"), K("TK_LPAREN"), Num(<<"1">>), K("TK_RPAREN"),
           K("TK_COMMA"), Num(<<"0">>), K("TK_COMMA")>> \o SizeofFoo
           \o <<K("TK_RPAREN"), K("TK_SEMICOLON")>>

Calls == {"good", "bad0", "bad1", "funky", "other"}

CallSamples ==
  { <<"templ", "bad0", "funky", "bad1">>,
    <<"bad0", "bad1", "bad0", "bad1", "funky">> }

CallFiles == SeqsUpTo(Calls, MaxCalls) \cup CallSamples

RECURSIVE CallsItems(_)
CallsItems(cs) == IF cs = <<>> THEN <<>> ELSE CallItems(Head(cs)) \o CallsItems(Tail(cs))

InitMemset ==
  /\ IdleTokenizer
  /\ IdleRun
  /\ decls \in CallFiles
  /\ tokens = Lex(CallsItems(decls))
  /\ impl \in {"flint", "cxx"}
  /\ call = NoNav
  /\ pos = 0
  /\ errors = <<>>
  /\ cstate = "checkMemset"
  /\ nestedClasses = <<>>
  /\ IdleScopes
  /\ IdleBlacklist

InMemset ==
  /\ cstate = "checkMemset"
  /\ pos < Len(tokens)

\* an iteration that reports nothing: not a call of memset, or a call in order
MemsetContinue ==
  /\ InMemset
  /\ LET b == memsetBody(tokens, pos, impl) IN
       /\ b.k = "continue"
       /\ b.lint = <<>>
       /\ pos' = b.it + 1
  /\ UNCHANGED <<errors, cstate, nestedClasses>>
  /\ UnchangedButConstructors

\* an iteration on a call with its last two arguments in the wrong order
MemsetLint ==
  /\ InMemset
  /\ LET b == memsetBody(tokens, pos, impl) IN
       /\ b.k = "continue"
       /\ b.lint # <<>>
       /\ errors' = errors \o b.lint
       /\ pos' = b.it + 1
  /\ UNCHANGED <<cstate, nestedClasses>>
  /\ UnchangedButConstructors

\* getFunctionNameAndArguments fails: checkMemset returns
MemsetGiveUp ==
  /\ InMemset
  /\ LET b == memsetBody(tokens, pos, impl) IN
       /\ b.k = "return"
       /\ pos' = b.it
  /\ cstate' = "done"
  /\ UNCHANGED <<errors, nestedClasses>>
  /\ UnchangedButConstructors

\* the end of the token vector
MemsetReturn ==
  /\ cstate = "checkMemset"
  /\ ~(pos < Len(tokens))
  /\ cstate' = "done"
  /\ UNCHANGED <<pos, errors, nestedClasses>>
  /\ UnchangedButConstructors

NextMemset ==
  \/ MemsetContinue
  \/ MemsetLint
  \/ MemsetGiveUp
  \/ MemsetReturn

SpecMemset == InitMemset /\ [][NextMemset]_vars

\* the token index of the name of call k of the file
CallLine(cs, k) == Len(CallsItems(SubSeq(cs, 1, k - 1))) + 1

ErrorsOn(ln) == Cardinality({i \in 1..Len(errors) : errors[i].line = ln})

\* a call before call k, or call k itself, has a < that no > closes
GivenUpBy(cs, k) ==
  \E j \in 1..k : cs[j] = "funky" /\ \A i \in j..Len(cs) : cs[i] # "templ"

\* C19: when checkMemset is done, no call from the first one with an unclosed <
\* on has a diagnostic, and every call before it has one Error if its last two
\* arguments are in the wrong order and none otherwise.
C19_MemsetStopsAtUnclosedAngle ==
  cstate = "done" =>
    /\ \A k \in 1..Len(decls) :
         ErrorsOn(CallLine(decls, k)) =
           IF decls[k] \in {"bad0", "bad1"} /\ ~GivenUpBy(decls, k) THEN 1 ELSE 0
    /\ \A i \in 1..Len(errors) :
         /\ errors[i].type = "ERROR"
         /\ \E k \in 1..Len(decls) : errors[i].line = CallLine(decls, k)

\* the same for the cxx version alone
MemsetStopsAtUnclosedAngleCxx == impl = "cxx" => C19_MemsetStopsAtUnclosedAngle

---------------------------------------------------------------------------
(* Claims about checkConstructors and nested classes (SpecConstructors) *)

\* the token index of the name in declaration k of ds, which starts behind
\* the first before tokens of the file
DeclLine(ds, k, before) ==
  before + Len(NestedDeclsItems(SubSeq(ds, 1, k - 1), <<"X">>))
    + (IF ds[k] \in {"CC", "DD"} THEN 1 ELSE 2)

InnerLine(f, k) == DeclLine(f.inner, k, Len(NestedBefore(f)))

OuterLine(f, k) ==
  DeclLine(f.outer, k, Len(NestedBefore(f)) + Len(NestedDeclsItems(f.inner, <<"X">>)) + 2)

\* C20: when checkConstructors is done with class CC { class DD { inner };
\* outer }; after, there is exactly one diagnostic for every DD(int a); in DD
\* and for every CC(int a); in CC, and every diagnostic is for a declaration
\* in the name of the class it stands in: none for CC(int a); in DD or
\* DD(int a); in CC, for the functions CC and DD at namespace and file scope,
\* and for the calls inside the body of a member function.
C20_InnermostClassOnly ==
  (cstate = "done" /\ decls.wrap = "nested") =>
    /\ \A k \in 1..Len(decls.inner) :
         decls.inner[k] = "DD" => ErrorsOn(InnerLine(decls, k)) = 1
    /\ \A k \in 1..Len(decls.outer) :
         decls.outer[k] = "CC" => ErrorsOn(OuterLine(decls, k)) = 1
    /\ \A i \in 1..Len(errors) :
         \/ \E k \in 1..Len(decls.inner) :
              decls.inner[k] \in {"DD", "voidDD"} /\ errors[i].line = InnerLine(decls, k)
         \/ \E k \in 1..Len(decls.outer) :
              decls.outer[k] \in {"CC", "voidCC"} /\ errors[i].line = OuterLine(decls, k)

\* the same for the files without an explicit constructor
InnermostClassOnlyWithoutExplicit ==
  (decls.wrap = "nested" /\ \A k \in 1..Len(decls.inner) : decls.inner[k] # "explicit")
    => C20_InnermostClassOnly

\* member k is a constructor C(int a) without marker that stands behind an
\* explicit constructor of the same class body
BehindExplicit(f, k) ==
  /\ f.members[k].kind = "ctor"
  /\ f.members[k].marker = "none"
  /\ ~f.members[k].void
  /\ f.members[k].params = <<IntA>>
  /\ \E j \in 1..(k - 1) : f.members[j].marker = "explicit"

\* C27: when checkConstructors is done, an implicit single-argument
\* constructor declared behind an explicit constructor of the same class body
\* has its one Error: explicit skips only the declaration it introduces.
C27_ExplicitSkipsOneDeclaration ==
  (cstate = "done" /\ decls.wrap # "nested") =>
    \A k \in 1..Len(decls.members) : BehindExplicit(decls, k) => LintsOn(k) = 1

\* the cxx version skips the one declaration and goes on
ExplicitSkipsOneDeclarationCxx == impl = "cxx" => C27_ExplicitSkipsOneDeclaration

---------------------------------------------------------------------------
(* Claims about the parenthesis count of skipTemplateSpec (SpecNavigate) *)

\* q is a TK_GREATER behind the TK_LESS at p with nothing but TK_RPAREN, and
\* at least one, between them
GreaterBehindStrayParens(p, q) ==
  /\ p + 1 < q
  /\ q < Len(tokens)
  /\ TypeAt(tokens, q) = "TK_GREATER"
  /\ \A r \in (p + 1)..(q - 1) : TypeAt(tokens, r) = "TK_RPAREN"

\* C30: skipTemplateSpec called on a TK_LESS that is followed by TK_RPAREN
\* tokens, with no TK_LPAREN open, and then by a TK_GREATER returns the
\* position of that TK_GREATER: the stray parentheses leave the count at zero
\* and the TK_GREATER at angle depth 1 ends the spec.
C30_ParenNestNotBelowZero ==
  call.op = "skipTemplateSpec" =>
    \A q \in 0..Len(tokens) : GreaterBehindStrayParens(call.pos, q) => call.ret.pos = q

\* with a stray TK_RPAREN the cxx version runs to TK_EOF
StrayParenRunsToEof ==
  (call.op = "skipTemplateSpec" /\ call.impl = "cxx") =>
    \A q \in 0..Len(tokens) : GreaterBehindStrayParens(call.pos, q) => call.ret.pos = EofPos

---------------------------------------------------------------------------
(* Claims about a catch clause that is never closed (SpecCatch) *)

\* the clause at pos names a type and no TK_RPAREN closes it
UnclosedCatch ==
  /\ AtCatch
  /\ TypeAt(tokens, pos + 1) = "TK_LPAREN"
  /\ TypeAt(tokens, pos + 2) # "TK_ELLIPSIS"
  /\ TypeAt(tokens, CaughtTypePos(pos)) = "TK_IDENTIFIER"
  /\ Closers(pos + 1, "TK_LPAREN", "TK_RPAREN") = {}

\* C29: on a catch (Type clause that no TK_RPAREN closes before the end of
\* the stream, checkCatchByReference returns normally with the diagnostics it
\* had: the step from such a clause ends the check, adds no diagnostic, and
\* neither throws nor reads behind the stream.
C29_UnclosedCatchStopsQuietly ==
  [][ UnclosedCatch => (cstate' = "done" /\ errors' = errors) ]_vars

\* what the code does there: the search for the parenthesis leaves the stream
\* and the check fails or reads behind the vector
UnclosedCatchFails ==
  [][ UnclosedCatch => (catchClause(tokens, pos, impl).k \in {"throw", "outside"}
                          /\ cstate' # "done") ]_vars

---------------------------------------------------------------------------
(* Claims about iterateClasses (SpecConstructors, the flint version) *)

ClassKeys == {"TK_CLASS", "TK_STRUCT", "TK_UNION"}

\* q lies in a template < ... > parameter list
InTemplateList(q) ==
  \E p \in 0..(q - 2) :
    /\ TypeAt(tokens, p) = "TK_TEMPLATE"
    /\ TypeAt(tokens, p + 1) = "TK_LESS"
    /\ \A c \in AngleClosers(p + 1) : q < c

\* C26: every step of iterateClasses that passes a class, struct or union
\* keyword outside the template parameter lists is the call of the callback
\* at that keyword, and the callback is never called at a keyword inside such
\* a list: the keywords outside are visited once each in stream order, the
\* class behind template <class T> among them.
C26_IterateClassesVisits ==
  [][ InIterateClasses =>
        /\ \A q \in pos..(pos' - 1) :
             (q < Len(tokens) /\ TypeAt(tokens, q) \in ClassKeys /\ ~InTemplateList(q))
               => (q = pos /\ IterateClass)
        /\ (TypeAt(tokens, pos) \in ClassKeys /\ InTemplateList(pos)) => ~IterateClass ]_vars

\* the same for the files without a template header
IterateClassesVisitsWithoutTemplate ==
  [][ (InIterateClasses /\ decls.wrap # "template") =>
        /\ \A q \in pos..(pos' - 1) :
             (q < Len(tokens) /\ TypeAt(tokens, q) \in ClassKeys) => (q = pos /\ IterateClass)
        /\ pos' > pos ]_vars

---------------------------------------------------------------------------
(* Claims about forward declarations (SpecVirtualDestructors) *)

\* class X; or struct X; at p
ForwardDeclaration(p) ==
  /\ p + 2 < Len(tokens)
  /\ TypeAt(tokens, p) \in {"TK_CLASS", "TK_STRUCT"}
  /\ TypeAt(tokens, p + 1) = "TK_IDENTIFIER"
  /\ TypeAt(tokens, p + 2) = "TK_SEMICOLON"

\* C28: the iteration of checkVirtualDestructors that stands on the class or
\* struct keyword of a forward declaration leaves the scope stack as it was
\* and leaves the iterator no further than behind the semicolon of the
\* declaration.
C28_ForwardDeclarationOpensNoScope ==
  [][ (InVirtualDestructors /\ ForwardDeclaration(pos)) =>
        (nestedClasses' = nestedClasses /\ pos' <= pos + 3) ]_vars

\* what the class-head scan does: it runs over the semicolon to the next
\* brace or colon, where it opens a scope, or to TK_EOF
ForwardDeclarationScansOn ==
  [][ (InVirtualDestructors /\ ForwardDeclaration(pos)) =>
        /\ pos' > pos + 3
        /\ \/ TypeAt(tokens, pos' - 1) = "TK_EOF"
           \/ Len(nestedClasses') = Len(nestedClasses) + 1 ]_vars

---------------------------------------------------------------------------
(* removeIgnoredCode (src/flint/Ignored.cpp, src/cxx/Ignored.cpp), one      *)
(* action per iteration of its loop. input is the file, output the result,  *)
(* pos the position in the file (0-based, as in the code).                  *)

kIgnorePause ==
  <<"/", "/", SP, "%", "f", "l", "i", "n", "t", ":", SP, "p", "a", "u", "s", "e">>

kIgnoreResume ==
  <<"/", "/", SP, "%", "f", "l", "i", "n", "t", ":", SP, "r", "e", "s", "u", "m", "e">>

\* string::npos
npos == -1

\* file.find(str, from): the first position at or behind from where str stands
string_find(file, str, from) ==
  LET hits == { i \in from..(Len(file) - Len(str)) :
                  \A k \in 1..Len(str) : file[i + k] = str[k] }
  IN  IF hits = {} THEN npos ELSE CHOOSE i \in hits : \A j \in hits : i <= j

\* file.substr(from, n) and file.substr(from)
substr(file, from, n) == SubSeq(file, from + 1, from + n)

substrFrom(file, from) == SubSeq(file, from + 1, Len(file))

\* count(file.begin() + a, file.begin() + b, '\n')
countNewlines(file, a, b) == Cardinality({i \in (a + 1)..b : file[i] = LF})

\* string(n, '\n')
newlines(n) == [i \in 1..n |-> LF]

posPause == string_find(input, kIgnorePause, pos)

posResume == string_find(input, kIgnoreResume, posPause + Len(kIgnorePause))

(* The files: up to MaxPieces pieces, each a marker, the part the markers  *)
(* share, a newline or a letter, and some longer ones. decls keeps the      *)
(* pieces the file was written from.                                        *)

MaxPieces == 3

Pieces == {"pause", "resume", "prefix", "newline", "x"}

PieceText(piece) ==
  CASE piece = "pause"   -> kIgnorePause
    [] piece = "resume"  -> kIgnoreResume
    [] piece = "prefix"  -> SubSeq(kIgnorePause, 1, 11)
    [] piece = "newline" -> <<LF>>
    [] piece = "x"       -> <<"x">>

RECURSIVE PiecesText(_)
PiecesText(ps) == IF ps = <<>> THEN <<>> ELSE PieceText(Head(ps)) \o PiecesText(Tail(ps))

PieceSamples ==
  { <<"x", "pause", "newline", "x", "resume", "x", "pause", "newline", "newline", "resume">>,
    <<"pause", "x", "pause", "newline", "resume", "newline", "resume", "x">>,
    <<"newline", "pause", "newline", "resume", "x", "newline", "pause", "newline", "x">>,
    <<"resume", "newline", "pause", "prefix", "newline", "resume", "prefix">> }

IgnoredFiles == SeqsUpTo(Pieces, MaxPieces) \cup PieceSamples

InitIgnored ==
  /\ decls \in IgnoredFiles
  /\ input = PiecesText(decls)
  /\ mem = <<NUL>>
  /\ pc = 1
  /\ line = 1
  /\ whitespace = <<>>
  /\ output = <<>>
  /\ structures = <<>>
  /\ tstate = "idle"
  /\ IdleRun
  /\ tokens = <<>>
  /\ impl \in {"flint", "cxx"}
  /\ call = NoNav
  /\ pos = 0
  /\ errors = <<>>
  /\ cstate = "removeIgnoredCode"
  /\ nestedClasses = <<>>
  /\ IdleScopes
  /\ IdleBlacklist

UnchangedButIgnored ==
  UNCHANGED <<input, mem, pc, line, whitespace, structures, tstate, tokens, impl, call,
              errors, nestedClasses, decls, scopeVars, blacklistVars, runVars>>

\* no pause marker behind pos: the rest of the file is added
IgnoredBreak ==
  /\ cstate = "removeIgnoredCode"
  /\ posPause = npos
  /\ output' = output \o substrFrom(input, pos)
  /\ cstate' = "done"
  /\ UNCHANGED pos
  /\ UnchangedButIgnored

\* a pause marker and no resume marker behind it: the message is printed and
\* the rest of the file is added
IgnoredNoResume ==
  /\ cstate = "removeIgnoredCode"
  /\ posPause # npos
  /\ posResume = npos
  /\ output' = output \o substrFrom(input, pos)
  /\ cstate' = "done"
  /\ UNCHANGED pos
  /\ UnchangedButIgnored

\* flint hands the string path itself to fprintf for %s, where cxx hands
\* fpath.c_str(): what fprintf reads as the address of the characters is what
\* the string object holds, so the call may also fail
IgnoredNoResumeCrash ==
  /\ cstate = "removeIgnoredCode"
  /\ impl = "flint"
  /\ posPause # npos
  /\ posResume = npos
  /\ cstate' = "crash"
  /\ UNCHANGED <<pos, output>>
  /\ UnchangedButIgnored

\* the region from the pause marker to the end of the resume marker is
\* replaced by its newlines
IgnoredRegion ==
  /\ cstate = "removeIgnoredCode"
  /\ posPause # npos
  /\ posResume # npos
  /\ output' = output \o substr(input, pos, posPause - pos)
                 \o newlines(countNewlines(input, posPause, posResume + Len(kIgnoreResume)))
  /\ pos' = posResume + Len(kIgnoreResume)
  /\ UNCHANGED cstate
  /\ UnchangedButIgnored

NextIgnored ==
  \/ IgnoredBreak
  \/ IgnoredNoResume
  \/ IgnoredNoResumeCrash
  \/ IgnoredRegion

SpecIgnored == InitIgnored /\ [][NextIgnored]_vars

\* the pieces that stay: outside a region all of them, inside a region the
\* newlines; a pause with no resume behind it opens no region
RECURSIVE Kept(_, _)
Kept(ps, paused) ==
  IF ps = <<>> THEN <<>>
  ELSE IF paused
    THEN (IF Head(ps) = "resume" THEN Kept(Tail(ps), FALSE)
          ELSE IF Head(ps) = "newline" THEN <<LF>> \o Kept(Tail(ps), TRUE)
          ELSE Kept(Tail(ps), TRUE))
  ELSE IF Head(ps) = "pause"
    THEN (IF \E k \in 2..Len(ps) : ps[k] = "resume" THEN Kept(Tail(ps), TRUE)
          ELSE PiecesText(ps))
  ELSE PieceText(Head(ps)) \o Kept(Tail(ps), FALSE)

\* C24: removeIgnoredCode returns, and what it returns is the file with every
\* region from a pause marker through the next resume marker replaced by the
\* newlines of the region: it has as many newlines as the file, keeps the
\* characters outside the regions in order, and keeps the rest of the file
\* behind a pause marker that no resume marker follows.
C24_RegionsBecomeNewlines ==
  cstate \in {"done", "crash"} =>
    /\ cstate = "done"
    /\ output = Kept(decls, FALSE)
    /\ NewLines(output) = NewLines(input)

\* the claim holds of the cxx version, and of the flint version when it returns
RegionsBecomeNewlinesOnReturn ==
  cstate = "done" =>
    /\ output = Kept(decls, FALSE)
    /\ NewLines(output) = NewLines(input)

---------------------------------------------------------------------------
(* checkThrowSpecification (src/flint/Checks.cpp, src/cxx/Checks.cpp): one  *)
(* action per iteration of iterateClasses, the callback run as a whole, and *)
(* one per iteration of the loop over the functions outside the classes.    *)

destructorSequence ==
  <<"TK_TILDE", "TK_IDENTIFIER", "TK_LPAREN", "TK_RPAREN", "TK_THROW", "TK_LPAREN", "TK_RPAREN">>

whatSequence ==
  <<"TK_LPAREN", "TK_RPAREN", "TK_CONST", "TK_THROW", "TK_LPAREN", "TK_RPAREN">>

what == <<"w", "h", "a", "t">>

\* atSequence of the version im
atSequenceOf(toks, p, list, im) ==
  IF im = "flint" THEN atSequence(toks, p, list) ELSE cxx_atSequence(toks, p, list) = "true"

\* the first TK_LCURL at or behind p; Len(toks) when there is none
RECURSIVE skipToLcurl(_, _)
skipToLcurl(toks, p) ==
  IF ~(p < Len(toks)) THEN p
  ELSE IF TypeAt(toks, p) = "TK_LCURL" THEN p
  ELSE skipToLcurl(toks, p + 1)

throwLint(tok) ==
  ErrorObject("WARNING", tok.line_, <<"Throw specifications on functions are deprecated.">>, "")

\* the loop of the callback over the body of a class. flint adds the whole
\* size of a sequence it recognises before the ++pos of the loop, cxx the
\* size less one.
RECURSIVE throwClassBody(_, _, _, _)
throwClassBody(toks, p, im, errs) ==
  IF AtEnd(toks, p) THEN errs
  ELSE IF atSequenceOf(toks, p, destructorSequence, im)
    THEN throwClassBody(toks, p + Len(destructorSequence) + (IF im = "flint" THEN 1 ELSE 0),
                        im, errs)
  ELSE IF TypeAt(toks, p) = "TK_IDENTIFIER" /\ ValueAt(toks, p) = what
    THEN (IF atSequenceOf(toks, p + 1, whatSequence, im)
          THEN throwClassBody(toks, p + 1 + Len(whatSequence) + (IF im = "flint" THEN 1 ELSE 0),
                              im, errs)
          ELSE throwClassBody(toks, p + 2, im, errs))
  ELSE IF TypeAt(toks, p) = "TK_LCURL"
    THEN throwClassBody(toks, (IF im = "flint" THEN skipBlock(toks, p)
                               ELSE cxx_skipBlock(toks, p)) + 1, im, errs)
  ELSE IF TypeAt(toks, p) = "TK_RCURL" THEN errs
  ELSE IF TypeAt(toks, p) = "TK_THROW" /\ TypeAt(toks, p + 1) = "TK_LPAREN"
    THEN throwClassBody(toks, p + 1, im, Append(errs, throwLint(toks[p + 1])))
  ELSE throwClassBody(toks, p + 1, im, errs)

\* the callback on the class, struct or union token at p
throwCallback(toks, p, im, errs) ==
  LET term == skipToLcurl(toks, p) IN
  IF ~(term < Len(toks)) THEN errs ELSE throwClassBody(toks, term + 1, im, errs)

\* the body of the loop over the functions outside the classes; it in the
\* result is the position as the body leaves it
throwFunctionsBody(toks, p) ==
  LET ty == TypeAt(toks, p) IN
  IF ty = "TK_USING"
    THEN Continue(IF TypeAt(toks, p + 1) = "TK_NAMESPACE" THEN p + 1 ELSE p, <<>>, <<>>)
  ELSE IF ty \in {"TK_NAMESPACE", "TK_CLASS", "TK_STRUCT", "TK_UNION", "TK_LCURL"}
    THEN LET term == skipToLcurl(toks, p) IN
         IF ~(term < Len(toks)) THEN [k |-> "return"]
         ELSE Continue(skipBlock(toks, term), <<>>, <<>>)
  ELSE IF ty = "TK_THROW" /\ TypeAt(toks, p + 1) = "TK_LPAREN"
    THEN Continue(p, <<>>, <<throwLint(toks[p + 1])>>)
  ELSE Continue(p, <<>>, <<>>)

(* The files: declarations at file scope, in a namespace, in a class or in  *)
(* a class behind a template header. decls keeps the declarations.          *)

MaxThrowDecls == 2

ThrowDeclItems(d) ==
  LET Throw == <<K("TK_THROW"), K("TK_LPAREN"), K("TK_RPAREN")>>
      F     == <<K("TK_VOID"), Id(<<"f">>), K("TK_LPAREN"), K("TK_RPAREN")>>
      Body  == <<K("TK_LCURL"), K("TK_THROW"), K("TK_LPAREN"), Num(<<"1">>), K("TK_RPAREN"),
                 K("TK_SEMICOLON"), K("TK_RCURL")>>
  IN
  CASE d = "spec"     -> F \o Throw \o <<K("TK_SEMICOLON")>>
    [] d = "specBody" -> F \o Throw \o Body
    [] d = "plain"    -> F \o <<K("TK_SEMICOLON")>>
    [] d = "body"     -> F \o Body
    [] d = "fwd"      -> <<K("TK_CLASS"), Id(<<"F">>), K("TK_SEMICOLON")>>
    [] d = "using"    -> <<K("TK_USING"), K("TK_NAMESPACE"), Id(<<"s">>), K("TK_SEMICOLON")>>
    [] d = "dtor"     -> <<K("TK_TILDE"), Id(ClassName), K("TK_LPAREN"), K("TK_RPAREN")>>
                           \o Throw \o <<K("TK_SEMICOLON")>>
    [] d = "dtorBody" -> <<K("TK_TILDE"), Id(ClassName), K("TK_LPAREN"), K("TK_RPAREN")>>
                           \o Throw \o <<K("TK_LCURL"), K("TK_RCURL")>>
    [] d = "what"     -> <<K("TK_VOID"), Id(what), K("TK_LPAREN"), K("TK_RPAREN"), K("TK_CONST")>>
                           \o Throw \o <<K("TK_SEMICOLON")>>

ThrowDecls == {"spec", "specBody", "plain", "body", "fwd", "using"}

ThrowClassDecls == {"spec", "specBody", "body", "fwd", "dtor", "dtorBody", "what"}

ThrowFiles ==
  [scope : {"file", "namespace"}, members : SeqsUpTo(ThrowDecls, MaxThrowDecls)]
    \cup [scope : {"class", "template"}, members : SeqsUpTo(ThrowClassDecls, MaxThrowDecls)]

RECURSIVE ThrowDeclsItems(_)
ThrowDeclsItems(ds) ==
  IF ds = <<>> THEN <<>> ELSE ThrowDeclItems(Head(ds)) \o ThrowDeclsItems(Tail(ds))

ThrowBefore(f) ==
  CASE f.scope = "file"      -> <<>>
    [] f.scope = "namespace" -> <<K("TK_NAMESPACE"), Id(<<"n">>), K("TK_LCURL")>>
    [] f.scope = "class"     -> <<K("TK_STRUCT"), Id(ClassName), K("TK_LCURL")>>
    [] f.scope = "template"  -> <<K("TK_TEMPLATE"), K("TK_LESS"), K("TK_CLASS"), Id(<<"T">>),
                                  K("TK_GREATER"), K("TK_STRUCT"), Id(ClassName), K("TK_LCURL")>>

ThrowFileItems(f) ==
  ThrowBefore(f) \o ThrowDeclsItems(f.members)
    \o (CASE f.scope = "file" -> <<>>
          [] f.scope = "namespace" -> <<K("TK_RCURL")>>
          [] OTHER -> <<K("TK_RCURL"), K("TK_SEMICOLON")>>)

InitThrowSpecification ==
  /\ IdleTokenizer
  /\ IdleRun
  /\ decls \in ThrowFiles
  /\ tokens = Lex(ThrowFileItems(decls))
  /\ impl \in {"flint", "cxx"}
  /\ call = NoNav
  /\ pos = 0
  /\ errors = <<>>
  /\ cstate = "iterateClasses"
  /\ nestedClasses = <<>>
  /\ IdleScopes
  /\ IdleBlacklist

\* the condition of the loop of iterateClasses: flint stops before the last
\* token, cxx goes over all of them
InThrowClasses ==
  /\ cstate = "iterateClasses"
  /\ pos < (IF impl = "flint" THEN Len(tokens) - 1 ELSE Len(tokens))

ThrowTemplate ==
  /\ InThrowClasses
  /\ atSequenceOf(tokens, pos, <<"TK_TEMPLATE", "TK_LESS">>, impl)
  /\ pos' = (IF impl = "flint" THEN skipTemplateSpec(tokens, pos + 1).pos
             ELSE cxx_skipTemplateSpec(tokens, pos + 1).pos) + 1
  /\ UNCHANGED <<errors, cstate, nestedClasses>>
  /\ UnchangedButConstructors

ThrowClass ==
  /\ InThrowClasses
  /\ ~atSequenceOf(tokens, pos, <<"TK_TEMPLATE", "TK_LESS">>, impl)
  /\ TypeAt(tokens, pos) \in {"TK_CLASS", "TK_STRUCT", "TK_UNION"}
  /\ errors' = throwCallback(tokens, pos, impl, errors)
  /\ pos' = pos + 1
  /\ UNCHANGED <<cstate, nestedClasses>>
  /\ UnchangedButConstructors

ThrowOther ==
  /\ InThrowClasses
  /\ ~atSequenceOf(tokens, pos, <<"TK_TEMPLATE", "TK_LESS">>, impl)
  /\ TypeAt(tokens, pos) \notin {"TK_CLASS", "TK_STRUCT", "TK_UNION"}
  /\ pos' = pos + 1
  /\ UNCHANGED <<errors, cstate, nestedClasses>>
  /\ UnchangedButConstructors

\* iterateClasses has returned: the loop over the functions begins
ThrowClassesDone ==
  /\ cstate = "iterateClasses"
  /\ ~InThrowClasses
  /\ cstate' = "functions"
  /\ pos' = 0
  /\ UNCHANGED <<errors, nestedClasses>>
  /\ UnchangedButConstructors

InThrowFunctions ==
  /\ cstate = "functions"
  /\ pos < Len(tokens)

ThrowFunctionsContinue ==
  /\ InThrowFunctions
  /\ LET b == throwFunctionsBody(tokens, pos) IN
       /\ b.k = "continue"
       /\ errors' = errors \o b.lint
       /\ pos' = b.it + 1
  /\ UNCHANGED <<cstate, nestedClasses>>
  /\ UnchangedButConstructors

\* no opening brace behind a namespace, class, struct or union token
ThrowFunctionsGiveUp ==
  /\ InThrowFunctions
  /\ throwFunctionsBody(tokens, pos).k = "return"
  /\ cstate' = "done"
  /\ UNCHANGED <<pos, errors, nestedClasses>>
  /\ UnchangedButConstructors

ThrowFunctionsReturn ==
  /\ cstate = "functions"
  /\ ~(pos < Len(tokens))
  /\ cstate' = "done"
  /\ UNCHANGED <<pos, errors, nestedClasses>>
  /\ UnchangedButConstructors

NextThrowSpecification ==
  \/ ThrowTemplate
  \/ ThrowClass
  \/ ThrowOther
  \/ ThrowClassesDone
  \/ ThrowFunctionsContinue
  \/ ThrowFunctionsGiveUp
  \/ ThrowFunctionsReturn

SpecThrowSpecification == InitThrowSpecification /\ [][NextThrowSpecification]_vars

\* the token index of the throw of declaration k, which is a throw specification
ThrowLine(f, k) ==
  Len(ThrowBefore(f)) + Len(ThrowDeclsItems(SubSeq(f.members, 1, k - 1))) + 5

\* C21: when checkThrowSpecification is done there is exactly one Warning on
\* the throw of every function declared with a throw specification, at file
\* scope, in a namespace or in a class, and no other diagnostic: none for the
\* destructor ~C() throw(), for what() const throw() and for the throw
\* expressions in the function bodies.
C21_OneWarningPerThrowSpecification ==
  cstate = "done" =>
    /\ \A k \in 1..Len(decls.members) :
         decls.members[k] \in {"spec", "specBody"} => WarningsOn(ThrowLine(decls, k)) = 1
    /\ \A i \in 1..Len(errors) :
         \E k \in 1..Len(decls.members) :
           decls.members[k] \in {"spec", "specBody"} /\ errors[i].line = ThrowLine(decls, k)

\* the claim holds of the files with one class and no forward declaration in
\* the cxx version, and of those without a destructor body in both
OneWarningPerThrowSpecificationInClass ==
  (/\ decls.scope = "class"
   /\ \A k \in 1..Len(decls.members) : decls.members[k] \notin {"fwd", "dtorBody"})
    => C21_OneWarningPerThrowSpecification

\* a function declared in a namespace is never looked at, in both versions,
\* unless a forward declaration makes the callback scan what follows it
NamespaceScopeIsSkipped ==
  (/\ cstate = "done"
   /\ decls.scope = "namespace"
   /\ \A k \in 1..Len(decls.members) : decls.members[k] # "fwd")
    => errors = <<>>

---------------------------------------------------------------------------
(* checkUsingNamespaceDirectives (src/cxx/Checks.cpp), one action per       *)
(* iteration of its loop over the tokens.                                   *)

boost == <<"b", "o", "o", "s", "t">>

tr1 == <<"t", "r", "1">>

\* the one group of MUTUALLY_EXCLUSIVE_NAMESPACES, the names as the code
\* builds them from the values of the tokens
MUTUALLY_EXCLUSIVE_NAMESPACES ==
  << { std, std \o <<":", ":">> \o tr1, boost,
       <<":", ":">> \o std, <<":", ":">> \o std \o <<":", ":">> \o tr1, <<":", ":">> \o boost } >>

\* the position of the first TK_SEMICOLON at or behind p; Len(toks) when the
\* search leaves the vector
RECURSIVE toSemicolon(_, _)
toSemicolon(toks, p) ==
  IF ~(p < Len(toks)) THEN p
  ELSE IF TypeAt(toks, p) = "TK_SEMICOLON" THEN p
  ELSE toSemicolon(toks, p + 1)

\* ns += i->value_ for the tokens p .. q - 1
RECURSIVE namespaceName(_, _, _)
namespaceName(toks, p, q) ==
  IF p >= q THEN <<>> ELSE ValueAt(toks, p) \o namespaceName(toks, p + 1, q)

\* allNamespaces.erase(*iNs) for every name of the set top
eraseScope_keepAll(all, top) == all

eraseScope(all, top) == [n \in (DOMAIN all) \ top |-> all[n]]

\* --namespaceGroupCounts[ii] for every name of top that is in group ii
leaveGroups(counts, top) ==
  [ii \in 1..Len(counts) |->
     counts[ii] - Cardinality(top \cap MUTUALLY_EXCLUSIVE_NAMESPACES[ii])]

\* the first conflicting namespace in the file: the name of the group, other
\* than ns, with the least line in allNamespaces; none leaves the line at the
\* greatest size_t, kept as -1
conflictOf(all, group, ns) ==
  LET others == {n \in (group \ {ns}) \cap DOMAIN all : TRUE} IN
  IF others = {} THEN [conflict |-> <<>>, conflictLine |-> -1]
  ELSE LET c == CHOOSE n \in others : \A m \in others : all[n] <= all[m] IN
       [conflict |-> c, conflictLine |-> all[c]]

duplicateError(tok, ns, ln) ==
  ErrorObject("ERROR", tok.line_, <<"Duplicate using directive for namespace", ns, ln>>, "")

conflictError(tok, ns, c) ==
  ErrorObject("ERROR", tok.line_, <<"Using namespace conflict:", ns, c.conflict, c.conflictLine>>, "")

(* The files: using directives for names in and outside the group, opening  *)
(* and closing braces. decls keeps the items.                               *)

MaxUsing == 4

UsingItems(u) ==
  LET Using == <<K("TK_USING"), K("TK_NAMESPACE")>> IN
  CASE u = "std"      -> Using \o <<Id(std), K("TK_SEMICOLON")>>
    [] u = "boost"    -> Using \o <<Id(boost), K("TK_SEMICOLON")>>
    [] u = "::std"    -> Using \o <<K("TK_DOUBLE_COLON"), Id(std), K("TK_SEMICOLON")>>
    [] u = "std::tr1" -> Using \o <<Id(std), K("TK_DOUBLE_COLON"), Id(tr1), K("TK_SEMICOLON")>>
    [] u = "abc"      -> Using \o <<Id(<<"a", "b", "c">>), K("TK_SEMICOLON")>>
    [] u = "open"     -> <<K("TK_LCURL")>>
    [] u = "close"    -> <<K("TK_RCURL")>>
    [] u = "unended"  -> Using \o <<Id(std)>>

UsingKinds == {"std", "boost", "::std", "abc", "open", "close"}

UsingSamples ==
  { <<"std", "open", "std::tr1", "open", "std", "close", "boost", "close", "boost", "std">>,
    <<"open", "abc", "open", "abc", "close", "abc", "close", "abc", "::std", "std::tr1">>,
    <<"std", "unended">> }

UsingFiles == SeqsUpTo(UsingKinds, MaxUsing) \cup UsingSamples

RECURSIVE UsingFileItems(_)
UsingFileItems(us) ==
  IF us = <<>> THEN <<>> ELSE UsingItems(Head(us)) \o UsingFileItems(Tail(us))

InitUsingNamespaceDirectives ==
  /\ IdleTokenizer
  /\ IdleRun
  /\ decls \in UsingFiles
  /\ tokens = Lex(UsingFileItems(decls))
  /\ impl = "cxx"
  /\ call = NoNav
  /\ pos = 0
  /\ errors = <<>>
  /\ cstate = "checkUsingNamespaceDirectives"
  /\ nestedClasses = <<>>
  /\ allNamespaces = <<>>
  /\ nestedNamespaces = <<{}>>
  /\ namespaceGroupCounts = [ii \in 1..Len(MUTUALLY_EXCLUSIVE_NAMESPACES) |-> 0]
  /\ nestedStatements = <<>>
  /\ IdleBlacklist

UnchangedButUsing ==
  UNCHANGED <<tokVars, tokens, impl, call, nestedClasses, decls, runVars, nestedStatements,
              blacklistVars>>

InUsingNamespaceDirectives ==
  /\ cstate = "checkUsingNamespaceDirectives"
  /\ pos < Len(tokens)

\* a new set for the namespaces of this scope
UsingLcurl ==
  /\ InUsingNamespaceDirectives
  /\ TypeAt(tokens, pos) = "TK_LCURL"
  /\ nestedNamespaces' = Append(nestedNamespaces, {})
  /\ pos' = pos + 1
  /\ UNCHANGED <<errors, cstate, allNamespaces, namespaceGroupCounts>>
  /\ UnchangedButUsing

\* the namespaces of the scope that closes fall out of scope
UsingRcurl ==
  /\ InUsingNamespaceDirectives
  /\ TypeAt(tokens, pos) = "TK_RCURL"
  /\ Len(nestedNamespaces) # 1
  /\ LET top == nestedNamespaces[Len(nestedNamespaces)] IN
       /\ allNamespaces' = eraseScope(allNamespaces, top)
       /\ namespaceGroupCounts' = leaveGroups(namespaceGroupCounts, top)
  /\ nestedNamespaces' = SubSeq(nestedNamespaces, 1, Len(nestedNamespaces) - 1)
  /\ pos' = pos + 1
  /\ UNCHANGED <<errors, cstate>>
  /\ UnchangedButUsing

\* closed more braces than we had: return 0
UsingSyntaxError ==
  /\ InUsingNamespaceDirectives
  /\ TypeAt(tokens, pos) = "TK_RCURL"
  /\ Len(nestedNamespaces) = 1
  /\ cstate' = "done"
  /\ UNCHANGED <<pos, errors, allNamespaces, nestedNamespaces, namespaceGroupCounts>>
  /\ UnchangedButUsing

AtUsingNamespace ==
  /\ InUsingNamespaceDirectives
  /\ TypeAt(tokens, pos) \notin {"TK_LCURL", "TK_RCURL"}
  /\ cxx_atSequence(tokens, pos, <<"TK_USING", "TK_NAMESPACE">>) = "true"

\* a directive for a namespace that is in allNamespaces already
UsingDuplicate ==
  /\ AtUsingNamespace
  /\ LET semi == toSemicolon(tokens, pos + 2)
         ns   == namespaceName(tokens, pos + 2, semi)
     IN  /\ semi < Len(tokens)
         /\ ns \in DOMAIN allNamespaces
         /\ errors' = Append(errors, duplicateError(tokens[semi + 1], ns, allNamespaces[ns]))
         /\ pos' = semi + 1
  /\ UNCHANGED <<cstate, allNamespaces, nestedNamespaces, namespaceGroupCounts>>
  /\ UnchangedButUsing

\* a directive for a namespace that is not: it joins the scope on top, and
\* conflicts when a name of its group is counted
UsingInsert ==
  /\ AtUsingNamespace
  /\ LET semi   == toSemicolon(tokens, pos + 2)
         ns     == namespaceName(tokens, pos + 2, semi)
         all    == (ns :> tokens[semi + 1].line_) @@ allNamespaces
         groups == {ii \in 1..Len(MUTUALLY_EXCLUSIVE_NAMESPACES) :
                      ns \in MUTUALLY_EXCLUSIVE_NAMESPACES[ii]}
         hit    == {ii \in groups : namespaceGroupCounts[ii] >= 1}
     IN  /\ semi < Len(tokens)
         /\ ns \notin DOMAIN allNamespaces
         /\ allNamespaces' = all
         /\ nestedNamespaces' =
              [nestedNamespaces EXCEPT ![Len(nestedNamespaces)] = @ \cup {ns}]
         /\ errors' = IF hit = {} THEN errors
                      ELSE Append(errors,
                             conflictError(tokens[semi + 1], ns,
                                           conflictOf(all, MUTUALLY_EXCLUSIVE_NAMESPACES[1], ns)))
         /\ namespaceGroupCounts' =
              [ii \in 1..Len(namespaceGroupCounts) |->
                 namespaceGroupCounts[ii] + (IF ii \in groups THEN 1 ELSE 0)]
         /\ pos' = semi + 1
  /\ UNCHANGED cstate
  /\ UnchangedButUsing

\* no semicolon behind the directive: the loop that gathers the name leaves
\* the vector, and what it reads there is anything; it may fail, or meet
\* something it takes for the end of the name and of the tokens
UsingReadOutside ==
  /\ AtUsingNamespace
  /\ ~(toSemicolon(tokens, pos + 2) < Len(tokens))
  /\ cstate' \in {"crash", "done"}
  /\ UNCHANGED <<pos, errors, allNamespaces, nestedNamespaces, namespaceGroupCounts>>
  /\ UnchangedButUsing

UsingOtherToken ==
  /\ InUsingNamespaceDirectives
  /\ TypeAt(tokens, pos) \notin {"TK_LCURL", "TK_RCURL"}
  /\ cxx_atSequence(tokens, pos, <<"TK_USING", "TK_NAMESPACE">>) # "true"
  /\ pos' = pos + 1
  /\ UNCHANGED <<errors, cstate, allNamespaces, nestedNamespaces, namespaceGroupCounts>>
  /\ UnchangedButUsing

UsingReturn ==
  /\ cstate = "checkUsingNamespaceDirectives"
  /\ ~(pos < Len(tokens))
  /\ cstate' = "done"
  /\ UNCHANGED <<pos, errors, allNamespaces, nestedNamespaces, namespaceGroupCounts>>
  /\ UnchangedButUsing

NextUsingNamespaceDirectives ==
  \/ UsingLcurl
  \/ UsingRcurl
  \/ UsingSyntaxError
  \/ UsingDuplicate
  \/ UsingInsert
  \/ UsingReadOutside
  \/ UsingOtherToken
  \/ UsingReturn

SpecUsingNamespaceDirectives ==
  InitUsingNamespaceDirectives /\ [][NextUsingNamespaceDirectives]_vars


(* C22, read off the file alone: what is visible at an item is every        *)
(* directive before it whose block no closing brace has ended yet.          *)

UsingDirectives == {"std", "boost", "::std", "std::tr1", "abc"}

UsingGroup == {"std", "boost", "::std", "std::tr1"}

\* the position of the first token of item k
UsingItemPos(k) == Len(UsingFileItems(SubSeq(decls, 1, k - 1)))

\* opening minus closing braces among the items j + 1 .. m
BraceBalance(j, m) ==
  Cardinality({x \in (j + 1)..m : decls[x] = "open"})
    - Cardinality({x \in (j + 1)..m : decls[x] = "close"})

\* the directives visible at item k
VisibleAt(k) ==
  { decls[j] : j \in { x \in 1..(k - 1) :
                         /\ decls[x] \in UsingDirectives
                         /\ \A m \in (x + 1)..(k - 1) : BraceBalance(x, m) >= 0 } }

IsDuplicateError(e) == e.title[1] = "Duplicate using directive for namespace"

IsConflictError(e) == e.title[1] = "Using namespace conflict:"

\* C22: a using directive is visible from its position to the closing brace
\* of its block; a directive for a visible namespace yields exactly one
\* duplicate error and nothing else, and otherwise a directive of the
\* mutually exclusive group yields exactly one conflict error iff another
\* namespace of the group is visible, and any other directive yields none
C22_UsingNamespaceVisibility ==
  [][\A k \in 1..Len(decls) :
       (/\ cstate = "checkUsingNamespaceDirectives"
        /\ pos = UsingItemPos(k)
        /\ decls[k] \in UsingDirectives)
       => LET new == SubSeq(errors', Len(errors) + 1, Len(errors'))
          IN  /\ SubSeq(errors', 1, Len(errors)) = errors
              /\ IF decls[k] \in VisibleAt(k)
                 THEN Len(new) = 1 /\ IsDuplicateError(new[1])
                 ELSE IF decls[k] \in UsingGroup /\ VisibleAt(k) \cap UsingGroup # {}
                      THEN Len(new) = 1 /\ IsConflictError(new[1])
                      ELSE new = <<>>]_vars

\* the whole of a file was checked in which a block with directives closed,
\* and both errors were given, the duplicate one twice
UsingNamespaceVisibilityReached ==
  /\ cstate = "done"
  /\ pos = Len(tokens)
  /\ \E j \in 1..Len(decls) : decls[j] = "close" /\ VisibleAt(j) # VisibleAt(j + 1)
  /\ \E a, b, c \in 1..Len(errors) :
       /\ a < b
       /\ IsDuplicateError(errors[a])
       /\ IsDuplicateError(errors[b])
       /\ IsConflictError(errors[c])

---------------------------------------------------------------------------
(* checkBreakInSynchronized (src/cxx/Checks.cpp), one action per iteration  *)
(* of its loop over the tokens.                                             *)

SYNCHRONIZED == <<"S", "Y", "N", "C", "H", "R", "O", "N", "I", "Z", "E", "D">>

\* the identifiers that open a SYNCHRONIZED pseudo-statement
SynchronizedFamily ==
  { SYNCHRONIZED,
    <<"U", "N">> \o SYNCHRONIZED,
    <<"T", "I", "M", "E", "D", "_">> \o SYNCHRONIZED,
    SYNCHRONIZED \o <<"_", "C", "O", "N", "S", "T">>,
    <<"T", "I", "M", "E", "D", "_">> \o SYNCHRONIZED \o <<"_", "C", "O", "N", "S", "T">> }

StatementBlockInfo(name, openBraces) == [name |-> name, openBraces |-> openBraces]

\* skipParens from the TK_LPAREN at p: the position of the matching
\* TK_RPAREN, or of TK_EOF
RECURSIVE skipParensFrom(_, _, _)
skipParensFrom(toks, p, openParens) ==
  IF TypeAt(toks, p) = "TK_EOF" THEN p
  ELSE IF TypeAt(toks, p) = "TK_LPAREN" THEN skipParensFrom(toks, p + 1, openParens + 1)
  ELSE IF TypeAt(toks, p) = "TK_RPAREN"
       THEN IF openParens - 1 = 0 THEN p ELSE skipParensFrom(toks, p + 1, openParens - 1)
  ELSE skipParensFrom(toks, p + 1, openParens)

skipParens(toks, p) == skipParensFrom(toks, p + 1, 1)

\* nestedStatements.top(), the last of the sequence
topStatement(stack) == stack[Len(stack)]

popStatement(stack) == SubSeq(stack, 1, Len(stack) - 1)

\* top().openBraces changed by n; openBraces is a uint of which only the
\* test against 0 is read, so the integer stands for it modulo 2^32
bracesOnTop(stack, n) ==
  [stack EXCEPT ![Len(stack)].openBraces = @ + n]

(* The files: one break or continue inside a chain of enclosing statements, *)
(* written from the outermost to the innermost. A statement has its body in *)
(* braces or not; in braces, other statements may stand before the body.    *)

MaxDepth == 2

LoopKinds == {"for", "while", "do", "switch"}

FrameKinds == LoopKinds \cup {"SYNCHRONIZED", "if", "else"}

Frame(kind, braces, before) == [kind |-> kind, braces |-> braces, before |-> before]

Frames ==
  { Frame(k, br, "none") : k \in FrameKinds, br \in BOOLEAN }
    \cup { Frame(k, TRUE, b) : k \in {"SYNCHRONIZED", "for"}, b \in {"statement", "loops"} }

Cond == <<K("TK_LPAREN"), Id(<<"a">>), K("TK_RPAREN")>>

Statement == <<Id(<<"a">>), K("TK_SEMICOLON")>>

FamilyName(kind) ==
  CASE kind = "SYNCHRONIZED" -> SYNCHRONIZED
    [] kind = "UNSYNCHRONIZED" -> <<"U", "N">> \o SYNCHRONIZED
    [] kind = "TIMED_SYNCHRONIZED" -> <<"T", "I", "M", "E", "D", "_">> \o SYNCHRONIZED
    [] kind = "SYNCHRONIZED_CONST" -> SYNCHRONIZED \o <<"_", "C", "O", "N", "S", "T">>
    [] kind = "TIMED_SYNCHRONIZED_CONST" ->
         <<"T", "I", "M", "E", "D", "_">> \o SYNCHRONIZED \o <<"_", "C", "O", "N", "S", "T">>

FamilyKinds ==
  {"SYNCHRONIZED", "UNSYNCHRONIZED", "TIMED_SYNCHRONIZED", "SYNCHRONIZED_CONST",
   "TIMED_SYNCHRONIZED_CONST"}

FrameHead(kind) ==
  CASE kind = "for" ->
         <<K("TK_FOR"), K("TK_LPAREN"), K("TK_SEMICOLON"), K("TK_SEMICOLON"), K("TK_RPAREN")>>
    [] kind = "while" -> <<K("TK_WHILE")>> \o Cond
    [] kind = "do" -> <<K("TK_DO")>>
    [] kind = "switch" -> <<K("TK_SWITCH")>> \o Cond
    [] kind = "if" -> <<K("TK_IF")>> \o Cond
    [] kind = "else" -> <<K("TK_IF")>> \o Cond \o Statement \o <<K("TK_ELSE")>>
    [] kind = "unparenthesized" -> <<K("TK_FOR")>>
    [] OTHER -> <<Id(FamilyName(kind))>> \o Cond

FrameBefore(before) ==
  CASE before = "none" -> <<>>
    [] before = "statement" -> Statement
    [] before = "loops" -> <<K("TK_WHILE")>> \o Cond \o <<K("TK_WHILE")>> \o Cond \o Statement

FrameOpen(f) ==
  FrameHead(f.kind) \o (IF f.braces THEN <<K("TK_LCURL")>> \o FrameBefore(f.before) ELSE <<>>)

FrameClose(f) ==
  (IF f.braces THEN <<K("TK_RCURL")>> ELSE <<>>)
    \o (IF f.kind = "do" THEN <<K("TK_WHILE")>> \o Cond \o <<K("TK_SEMICOLON")>> ELSE <<>>)

RECURSIVE BreakFileItems(_, _)
BreakFileItems(frames, last) ==
  IF frames = <<>> THEN <<K(last), K("TK_SEMICOLON")>>
  ELSE FrameOpen(Head(frames)) \o BreakFileItems(Tail(frames), last) \o FrameClose(Head(frames))

BreakFile(frames, last) == [frames |-> frames, last |-> last]

BreakSamples ==
  { BreakFile(<<Frame(k, b, "none")>>, l) :
      k \in FamilyKinds, b \in BOOLEAN, l \in {"TK_BREAK", "TK_CONTINUE"} }
    \cup { BreakFile(<<Frame("for", TRUE, "none"), Frame("SYNCHRONIZED", TRUE, "loops"),
                       Frame("if", FALSE, "none")>>, "TK_BREAK"),
           BreakFile(<<Frame("SYNCHRONIZED", TRUE, "statement"), Frame("while", FALSE, "none"),
                       Frame("else", FALSE, "none")>>, "TK_BREAK"),
           BreakFile(<<Frame("while", TRUE, "none"), Frame("SYNCHRONIZED", TRUE, "none"),
                       Frame("if", FALSE, "none")>>, "TK_BREAK"),
           BreakFile(<<Frame("unparenthesized", FALSE, "none")>>, "TK_BREAK") }

BreakFiles ==
  { BreakFile(f, "TK_BREAK") : f \in SeqsUpTo(Frames, MaxDepth) }
    \cup { BreakFile(f, "TK_CONTINUE") : f \in SeqsUpTo(Frames, 1) }
    \cup BreakSamples

InitBreakInSynchronized ==
  /\ IdleTokenizer
  /\ IdleRun
  /\ decls \in BreakFiles
  /\ tokens = Lex(BreakFileItems(decls.frames, decls.last))
  /\ impl = "cxx"
  /\ call = NoNav
  /\ pos = 0
  /\ errors = <<>>
  /\ cstate = "checkBreakInSynchronized"
  /\ nestedClasses = <<>>
  /\ allNamespaces = <<>>
  /\ nestedNamespaces = <<>>
  /\ namespaceGroupCounts = <<>>
  /\ nestedStatements = <<>>
  /\ IdleBlacklist

UnchangedButBreak ==
  UNCHANGED <<tokVars, tokens, impl, call, nestedClasses, decls, runVars,
              allNamespaces, nestedNamespaces, namespaceGroupCounts, blacklistVars>>

InBreakInSynchronized ==
  /\ cstate = "checkBreakInSynchronized"
  /\ pos < Len(tokens)

\* while, switch, do: a new statement with no open braces
BreakLoop ==
  /\ InBreakInSynchronized
  /\ TypeAt(tokens, pos) \in {"TK_WHILE", "TK_SWITCH", "TK_DO"}
  /\ nestedStatements' = Append(nestedStatements, StatementBlockInfo(ValueAt(tokens, pos), 0))
  /\ pos' = pos + 1
  /\ UNCHANGED <<errors, cstate>>
  /\ UnchangedButBreak

\* for: the same, and the parentheses behind it are stepped over
BreakFor ==
  /\ InBreakInSynchronized
  /\ TypeAt(tokens, pos) = "TK_FOR"
  /\ TypeAt(tokens, pos + 1) = "TK_LPAREN"
  /\ nestedStatements' = Append(nestedStatements, StatementBlockInfo(ValueAt(tokens, pos), 0))
  /\ pos' = skipParens(tokens, pos + 1) + 1
  /\ UNCHANGED <<errors, cstate>>
  /\ UnchangedButBreak

\* CHECK_EQ(it->type_, TK_LPAREN) in skipParens ends the program
BreakForCheckFails ==
  /\ InBreakInSynchronized
  /\ TypeAt(tokens, pos) = "TK_FOR"
  /\ TypeAt(tokens, pos + 1) # "TK_LPAREN"
  /\ cstate' = "abort"
  /\ UNCHANGED <<pos, errors, nestedStatements>>
  /\ UnchangedButBreak

BreakLcurl ==
  /\ InBreakInSynchronized
  /\ TypeAt(tokens, pos) = "TK_LCURL"
  /\ nestedStatements' = IF nestedStatements # <<>> THEN bracesOnTop(nestedStatements, 1)
                         ELSE nestedStatements
  /\ pos' = pos + 1
  /\ UNCHANGED <<errors, cstate>>
  /\ UnchangedButBreak

BreakRcurl ==
  /\ InBreakInSynchronized
  /\ TypeAt(tokens, pos) = "TK_RCURL"
  /\ nestedStatements' =
       IF nestedStatements = <<>> THEN nestedStatements
       ELSE IF topStatement(bracesOnTop(nestedStatements, -1)).openBraces = 0
            THEN popStatement(nestedStatements)
            ELSE bracesOnTop(nestedStatements, -1)
  /\ pos' = pos + 1
  /\ UNCHANGED <<errors, cstate>>
  /\ UnchangedButBreak

\* in case there is no brace in a for or while statement
BreakSemicolon ==
  /\ InBreakInSynchronized
  /\ TypeAt(tokens, pos) = "TK_SEMICOLON"
  /\ nestedStatements' =
       IF nestedStatements # <<>> /\ topStatement(nestedStatements).openBraces = 0
       THEN popStatement(nestedStatements)
       ELSE nestedStatements
  /\ pos' = pos + 1
  /\ UNCHANGED <<errors, cstate>>
  /\ UnchangedButBreak

AtSynchronized ==
  /\ TypeAt(tokens, pos) = "TK_IDENTIFIER"
  /\ ValueAt(tokens, pos) \in SynchronizedFamily

BreakSynchronized ==
  /\ InBreakInSynchronized
  /\ AtSynchronized
  /\ nestedStatements' = Append(nestedStatements, StatementBlockInfo(SYNCHRONIZED, 0))
  /\ pos' = pos + 1
  /\ UNCHANGED <<errors, cstate>>
  /\ UnchangedButBreak

synchronizedError(tok) ==
  ErrorObject("ERROR", tok.line_,
              <<"Cannot use break/continue inside SYNCHRONIZED pseudo-statement">>, "")

BreakOrContinue ==
  /\ InBreakInSynchronized
  /\ TypeAt(tokens, pos) \in {"TK_BREAK", "TK_CONTINUE"}
  /\ errors' = IF nestedStatements # <<>> /\ topStatement(nestedStatements).name = SYNCHRONIZED
               THEN Append(errors, synchronizedError(tokens[pos + 1]))
               ELSE errors
  /\ pos' = pos + 1
  /\ UNCHANGED <<cstate, nestedStatements>>
  /\ UnchangedButBreak

BreakOtherToken ==
  /\ InBreakInSynchronized
  /\ TypeAt(tokens, pos) \notin
       {"TK_WHILE", "TK_SWITCH", "TK_DO", "TK_FOR", "TK_LCURL", "TK_RCURL", "TK_SEMICOLON",
        "TK_BREAK", "TK_CONTINUE"}
  /\ ~AtSynchronized
  /\ pos' = pos + 1
  /\ UNCHANGED <<errors, cstate, nestedStatements>>
  /\ UnchangedButBreak

BreakReturn ==
  /\ cstate = "checkBreakInSynchronized"
  /\ ~(pos < Len(tokens))
  /\ cstate' = "done"
  /\ UNCHANGED <<pos, errors, nestedStatements>>
  /\ UnchangedButBreak

NextBreakInSynchronized ==
  \/ BreakLoop
  \/ BreakFor
  \/ BreakForCheckFails
  \/ BreakLcurl
  \/ BreakRcurl
  \/ BreakSemicolon
  \/ BreakSynchronized
  \/ BreakOrContinue
  \/ BreakOtherToken
  \/ BreakReturn

SpecBreakInSynchronized ==
  InitBreakInSynchronized /\ [][NextBreakInSynchronized]_vars

\* the kind of the innermost frame that is a loop, a switch or a
\* SYNCHRONIZED pseudo-statement; "none" when there is none
RECURSIVE InnermostStatement(_)
InnermostStatement(frames) ==
  IF frames = <<>> THEN "none"
  ELSE LET f == frames[Len(frames)] IN
       IF f.kind \in LoopKinds \cup FamilyKinds THEN f.kind
       ELSE InnermostStatement(SubSeq(frames, 1, Len(frames) - 1))

\* C23: a break or continue is reported iff its innermost enclosing
\* statement, among the loops, switch and the SYNCHRONIZED family, is of the
\* SYNCHRONIZED family
C23_ReportedIffInnermostSynchronized ==
  [][(/\ cstate = "checkBreakInSynchronized"
      /\ pos < Len(tokens)
      /\ TypeAt(tokens, pos) \in {"TK_BREAK", "TK_CONTINUE"})
     => ((Len(errors') = Len(errors) + 1)
           <=> (InnermostStatement(decls.frames) \in FamilyKinds))]_vars

\* a statement of the file whose body is not in braces and holds an
\* if-else, or which follows two loops without braces in a row
PlainFrames(frames) ==
  \A i \in 1..Len(frames) : frames[i].kind # "else" /\ frames[i].before # "loops"

\* where no loop without braces has another such loop or an if-else as its
\* body, the report is as the claim says
ReportedIffInnermostSynchronizedPlain ==
  [][(/\ cstate = "checkBreakInSynchronized"
      /\ pos < Len(tokens)
      /\ TypeAt(tokens, pos) \in {"TK_BREAK", "TK_CONTINUE"}
      /\ PlainFrames(decls.frames))
     => ((Len(errors') = Len(errors) + 1)
           <=> (InnermostStatement(decls.frames) \in FamilyKinds))]_vars

---------------------------------------------------------------------------
(* checkBlacklistedSequences (src/flint/Checks.cpp), called more than once  *)
(* on the tokens of one file, with the same ErrorFile and the same Options, *)
(* and with calls of checkIfEndifBalance between the calls.                 *)

BlacklistEntry(t, h, d, cpponly) == [tokens |-> t, title |-> h, descr |-> d, cpponly |-> cpponly]

blacklist ==
  << BlacklistEntry(<<"TK_VOLATILE">>, <<"'volatile' is not thread-safe.">>,
                    "If multiple threads are sharing data, use std::atomic or locks.", TRUE) >>

exceptions == << <<"TK_ASM", "TK_VOLATILE">> >>

lintWarning(tok, title, descr) == ErrorObject("WARNING", tok.line_, title, descr)

\* the loop over the blacklist at one position, from entry i on: the flag
\* and the diagnostics it leaves
RECURSIVE blacklistEntries(_, _, _, _, _, _)
blacklistEntries(toks, p, exc, opts, i, lint) ==
  IF i > Len(blacklist) THEN [isException |-> exc, lint |-> lint]
  ELSE IF ~atSequence(toks, p, blacklist[i].tokens)
       THEN blacklistEntries(toks, p, exc, opts, i + 1, lint)
  ELSE IF exc THEN blacklistEntries(toks, p, FALSE, opts, i + 1, lint)
  ELSE IF opts.CMODE /\ blacklist[i].cpponly
       THEN blacklistEntries(toks, p, exc, opts, i + 1, lint)
  ELSE blacklistEntries(toks, p, exc, opts, i + 1,
                        Append(lint, lintWarning(toks[p + 1], blacklist[i].title,
                                                 blacklist[i].descr)))

\* one iteration of the loop over the tokens
blacklistBody(toks, p, exc, opts) ==
  blacklistEntries(toks, p,
                   exc \/ (\E e \in 1..Len(exceptions) : atSequence(toks, p, exceptions[e])),
                   opts, 1, <<>>)

\* for (size_t pos = 0; ...): a call starts at the first token, wherever
\* the call before it has ended
loopStart_whereItEnded(p) == p

loopStart(p) == 0

MaxBlacklistLen == 3

MaxInvocations == 2

BlacklistKinds == {"TK_VOLATILE", "TK_ASM", "TK_IDENTIFIER", "TK_POUNDIF"}

BlacklistSamples ==
  { <<"TK_ASM", "TK_VOLATILE", "TK_LPAREN", "TK_RPAREN", "TK_SEMICOLON", "TK_VOLATILE", "TK_INT",
      "TK_IDENTIFIER", "TK_SEMICOLON">>,
    <<"TK_POUNDIF", "TK_VOLATILE", "TK_INT", "TK_IDENTIFIER", "TK_SEMICOLON", "TK_ASM",
      "TK_VOLATILE", "TK_LPAREN", "TK_RPAREN", "TK_SEMICOLON">> }

BlacklistStreams ==
  { Stream(k) : k \in SeqsUpTo(BlacklistKinds, MaxBlacklistLen) \cup BlacklistSamples }

InitBlacklistedSequences ==
  /\ IdleTokenizer
  /\ IdleRun
  /\ IdleScopes
  /\ tokens \in BlacklistStreams
  /\ impl = "flint"
  /\ call = NoNav
  /\ pos = 0
  /\ errors = <<>>
  /\ cstate = "checkEntry"
  /\ nestedClasses = <<>>
  /\ decls = <<>>
  /\ isException = FALSE
  /\ Options \in [CMODE : BOOLEAN]
  /\ previous = <<>>

UnchangedButBlacklist ==
  UNCHANGED <<tokVars, tokens, impl, nestedClasses, decls, runVars, scopeVars, Options>>

\* checkEntry calls the check
BlacklistCall ==
  /\ cstate = "checkEntry"
  /\ Len(previous) < MaxInvocations
  /\ cstate' = "checkBlacklistedSequences"
  /\ call' = [op |-> "checkBlacklistedSequences", first |-> Len(errors)]
  /\ isException' = FALSE
  /\ pos' = loopStart(pos)
  /\ UNCHANGED <<errors, previous>>
  /\ UnchangedButBlacklist

BlacklistStep ==
  /\ cstate = "checkBlacklistedSequences"
  /\ pos < Len(tokens)
  /\ LET b == blacklistBody(tokens, pos, isException, Options) IN
       /\ isException' = b.isException
       /\ errors' = errors \o b.lint
  /\ pos' = pos + 1
  /\ UNCHANGED <<cstate, call, previous>>
  /\ UnchangedButBlacklist

\* the check returns; previous keeps what this call added to the ErrorFile
BlacklistReturn ==
  /\ cstate = "checkBlacklistedSequences"
  /\ ~(pos < Len(tokens))
  /\ cstate' = "checkEntry"
  /\ previous' = Append(previous, SubSeq(errors, call.first + 1, Len(errors)))
  /\ UNCHANGED <<pos, errors, call, isException>>
  /\ UnchangedButBlacklist

\* checkEntry calls another check, here checkIfEndifBalance, at most once
\* between two calls of checkBlacklistedSequences
BlacklistOtherCheck ==
  /\ cstate = "checkEntry"
  /\ call.op # "checkIfEndifBalance"
  /\ errors' = errors \o runIfEndifBalance(tokens, 0, 0, impl, <<>>)
  /\ call' = [op |-> "checkIfEndifBalance"]
  /\ UNCHANGED <<pos, cstate, isException, previous>>
  /\ UnchangedButBlacklist

NextBlacklistedSequences ==
  \/ BlacklistCall
  \/ BlacklistStep
  \/ BlacklistReturn
  \/ BlacklistOtherCheck

SpecBlacklistedSequences ==
  InitBlacklistedSequences /\ [][NextBlacklistedSequences]_vars

============================================================================
